---- MODULE Spec2Model ----
(***************************************************************************)
(* Remote-execution dispatch of compiler-explorer: the SQS request queue   *)
(* (SqsExecuteQueueBase, SqsExecuteRequester, SqsWorkerMode), the worker   *)
(* loop (startExecutionWorkerThread / doExecutionWork) and the phases of   *)
(* one request in LocalExecutionEnvironment, as found in                   *)
(* src/static/panes/diff.ts.                                               *)
(*                                                                         *)
(* The broker (AWS SQS FIFO queue), the executable cache, the sandbox and  *)
(* the websocket notifier are the environment: each awaited call on them   *)
(* may succeed or raise, chosen nondeterministically.                      *)
(***************************************************************************)
EXTENDS Integers, Sequences, FiniteSets, TLC

(* ------------------------------ bounds --------------------------------- *)

\* Number of sendMessage calls (push and foreign producers) in one run.
MaxPush == 2

\* Times a visibility timeout runs out in one run.
MaxExpiries == 1

\* Concurrent invocations of doExecutionWork one worker process can hold.
\* The code never uses more than one; the second slot is what a faulty
\* scheduling would occupy.
MaxSlots == 2

Workers == {"w1", "w2"}
Slots == 1..MaxSlots

(* ------------------------- program constants --------------------------- *)

\* setTimeout(doExecutionWork, 1500) at start.
InitialDelayMs == 1500
\* setTimeout(doExecutionWork, 500) at the end of an iteration.
PollIntervalMs == 500
\* Variant: a receiveMessage that asks for two messages.
MaxNumberOfMessages_two == 1 + 1
\* receiveMessage({..., MaxNumberOfMessages: 1}).
MaxNumberOfMessages == 1

(* ------------------------------ values --------------------------------- *)

\* Values of the property execqueue.queue_url ('' is the default).
QueueUrlProps == {"", "q"}

\* Field values of an ExecutionTriple.
InstructionSets == {"amd64", "aarch64"}
OperatingSystems == {"linux", "win32"}
Specialties == {"cpu", "gpu"}
Triples ==
    [instructionSet : InstructionSets, operatingSystem : OperatingSystems,
     specialty : Specialties]

\* new ExecutionTriple(): the triple every SqsWorkerMode is bound to.
DefaultTriple ==
    [instructionSet |-> "amd64", operatingSystem |-> "linux", specialty |-> "cpu"]

\* The triples requesters of this model push to.
PushTriples ==
    { DefaultTriple,
      [instructionSet |-> "aarch64", operatingSystem |-> "linux", specialty |-> "cpu"] }

\* The ExecutionParams of a value that carries none.
NoParams == [args |-> <<>>, isArray |-> TRUE]

\* RemoteExecutionMessage = {guid, hash, params}.
\* "abc123" is in the executable cache, "missing" is not.
PushMessages ==
    { [guid |-> "g1", hash |-> "abc123", params |-> [args |-> <<"--version">>, isArray |-> TRUE]],
      [guid |-> "g2", hash |-> "abc123", params |-> [args |-> <<"--version">>, isArray |-> TRUE]],
      [guid |-> "g1", hash |-> "missing", params |-> [args |-> <<"--version">>, isArray |-> TRUE]],
      [guid |-> "", hash |-> "abc123", params |-> [args |-> <<"--version">>, isArray |-> TRUE]] }

\* environment.executableCache.get(hash).hit
CacheHit(hash) == hash = "abc123"

(* ------------------------- JSON (de)serialization ---------------------- *)

\* JSON.stringify(message): the text as a sequence of tokens, the keys in
\* insertion order guid, hash, params.
JSON_stringify(m) ==
    <<"{", "guid", m.guid, "hash", m.hash, "params", "{", "args", "[">>
        \o m.params.args \o <<"]", "}", "}">>

\* Bodies other producers put on the queue: text that is no JSON, the JSON
\* text 5, and an object with the guid and the hash of a message but
\* without params.
ForeignBodies ==
    { <<"not json">>, <<"5">>, <<"{", "guid", "g1", "hash", "abc123", "}">> }

\* The one-token texts that are JSON: the literals, a number, a string.
JSON_literals == {"null", "true", "false", "5", "\"x\""}

RECURSIVE JSON_value(_, _), JSON_members(_, _), JSON_elements(_, _)
\* The index after the JSON value that starts at token i of b; 0 when no
\* value starts there.  Inside an object or an array a token that is no
\* bracket is a string.
JSON_value(b, i) ==
    IF i > Len(b) THEN 0
    ELSE IF b[i] = "{" THEN JSON_members(b, i + 1)
    ELSE IF b[i] = "[" THEN JSON_elements(b, i + 1)
    ELSE IF b[i] \in {"}", "]"} THEN 0
    ELSE i + 1
\* The index after the '}' that ends the members from token i on.
JSON_members(b, i) ==
    IF i > Len(b) THEN 0
    ELSE IF b[i] = "}" THEN i + 1
    ELSE IF b[i] \in {"{", "[", "]"} THEN 0
    ELSE LET j == JSON_value(b, i + 1)
         IN  IF j = 0 THEN 0 ELSE JSON_members(b, j)
\* The index after the ']' that ends the elements from token i on.
JSON_elements(b, i) ==
    IF i > Len(b) THEN 0
    ELSE IF b[i] = "]" THEN i + 1
    ELSE LET j == JSON_value(b, i)
         IN  IF j = 0 THEN 0 ELSE JSON_elements(b, j)

RECURSIVE JSON_member(_, _, _)
\* Where the value of the member key starts, among the members of a
\* well-formed object from token i on (the last one of that name wins);
\* 0 when the object has no such member.
JSON_member(b, i, key) ==
    IF b[i] = "}" THEN 0
    ELSE LET later == JSON_member(b, JSON_value(b, i + 1), key)
         IN  IF later # 0 THEN later
             ELSE IF b[i] = key THEN i + 1 ELSE 0

\* The value of a member read as a string; undefined (a missing member)
\* reads as '', an object or an array as its opening bracket.
JSON_string(b, k) == IF k = 0 THEN "" ELSE b[k]

\* The member params of a parsed object, as execute reads it: args is
\* 'typeof params.args === "string" ? utils.splitArguments(params.args)
\* : params.args || []'.  An array is handed on as it is (isArray, args its
\* elements), a string as ['<text>'] and '' as []; an object is truthy and
\* is handed on as the object itself (isArray FALSE, args the object as
\* written, with its braces); without args, or with params no object, [].
JSON_params(b, k) ==
    IF k = 0 \/ b[k] # "{" THEN NoParams
    ELSE LET a == JSON_member(b, k + 1, "args")
         IN  IF a = 0 THEN NoParams
             ELSE IF b[a] = "["
                  THEN [args |-> SubSeq(b, a + 1, JSON_value(b, a) - 2),
                        isArray |-> TRUE]
             ELSE IF b[a] = "{"
                  THEN [args |-> SubSeq(b, a, JSON_value(b, a) - 1),
                        isArray |-> FALSE]
             ELSE IF b[a] = "" THEN NoParams
             ELSE [args |-> <<b[a]>>, isArray |-> TRUE]

\* A value that is no message object: undefined, null, a primitive, an array.
NoMessage(kind) ==
    [kind |-> kind, guid |-> "", hash |-> "", params |-> NoParams, hasParams |-> FALSE]

\* JSON.parse(json): kind "error" is a thrown SyntaxError, "null" the value
\* null, "primitive" a boolean, number or string, "array" an array, "object"
\* an object with its members guid, hash and params; a missing guid or hash
\* reads as '' (both are falsy), hasParams tells whether params is there.
JSON_parse(b) ==
    IF Len(b) = 1
    THEN IF b[1] \notin JSON_literals THEN NoMessage("error")
         ELSE IF b[1] = "null" THEN NoMessage("null")
         ELSE NoMessage("primitive")
    ELSE IF b = <<>> \/ JSON_value(b, 1) # Len(b) + 1 THEN NoMessage("error")
    ELSE IF b[1] = "[" THEN NoMessage("array")
    ELSE [kind |-> "object",
          guid |-> JSON_string(b, JSON_member(b, 2, "guid")),
          hash |-> JSON_string(b, JSON_member(b, 2, "hash")),
          params |-> JSON_params(b, JSON_member(b, 2, "params")),
          hasParams |-> JSON_member(b, 2, "params") # 0]

\* The value undefined, where a message is expected.
Undefined == NoMessage("undefined")

\* utils.getHash(body): a digest, determined by the text alone and distinct
\* for distinct texts.
getHash(body) == <<"sha256">> \o body

(* ------------------------------ routing -------------------------------- *)

\* ExecutionTriple.toString()
Triple_toString(t) ==
    t.instructionSet \o "-" \o t.operatingSystem \o "-" \o t.specialty

\* Variant: a queue url that leaves the triple out.
getSqsQueueUrl_NoTriple(queue_url_, triple) == queue_url_ \o ".fifo"
\* SqsExecuteQueueBase.getSqsQueueUrl
getSqsQueueUrl(queue_url_, triple) ==
    queue_url_ \o "-" \o Triple_toString(triple) \o ".fifo"

(* ------------------ LocalExecutionEnvironment: values ------------------ *)

\* The longest runtimeTools list of a request.
MaxTools == 2

\* ceProps('binaryExecTimeoutMs', 2000)
BinaryExecTimeoutMs == 2000
\* ceProps('max-executable-output-size', 32 * 1024)
MaxExecutableOutputSize == 32 * 1024

\* path.delimiter of the host of the workers
PathDelimiter == ":"

\* An environment block: a function from the names it holds to their values.
EmptyEnv == [k \in {} |-> ""]

\* env[name] = value
EnvSet(env, name, value) ==
    [k \in DOMAIN env \cup {name} |-> IF k = name THEN value ELSE env[k]]

\* The object spread {...a, ...b}
Spread(a, b) ==
    [k \in DOMAIN a \cup DOMAIN b |-> IF k \in DOMAIN b THEN b[k] ELSE a[k]]

\* One name/value pair of the options of a runtime tool.
Opt(name, value) == [name |-> name, value |-> value]

\* The options an env runtime tool of a request carries.
EnvOptionLists ==
    { <<Opt("PATH", "/caller/bin")>>,
      <<Opt("ASAN_OPTIONS", "detect_leaks=0")>>,
      <<Opt("FOO", "bar"), Opt("PATH", "/caller/bin")>> }

\* RuntimeToolType.env, RuntimeToolType.heaptrack, and a tool type this
\* class has no branch for.
ToolChoices ==
    { [name |-> "env", options |-> o] : o \in EnvOptionLists }
        \cup { [name |-> "heaptrack", options |-> <<Opt("graph", "yes")>>],
               [name |-> "libsegfault", options |-> <<>>] }

RECURSIVE ToolLists(_)
ToolLists(n) ==
    IF n = 0 THEN { <<>> }
    ELSE ToolLists(n - 1)
            \cup { Append(l, t) : l \in { x \in ToolLists(n - 1) : Len(x) = n - 1 },
                                  t \in ToolChoices }

RuntimeToolLists == ToolLists(MaxTools)

\* ExecutionParams = {args, stdin, runtimeTools}, as execute receives them.
ExecutionParamsInputs ==
    { [args |-> <<"--version">>, stdin |-> "", runtimeTools |-> l] :
          l \in RuntimeToolLists }

\* executeParameters.env of a caller of execBinary.
CallerEnvs ==
    { EmptyEnv,
      [k \in {"ASAN_OPTIONS"} |-> "abort_on_error=1"],
      [k \in {"FOO", "UBSAN_OPTIONS"} |->
          IF k = "FOO" THEN "x" ELSE "print_stacktrace=1"] }

\* ExecutableExecutionOptions = {args, stdin, ldPath, env, runtimeTools}, as
\* execBinary receives them; ldPathDefined is FALSE for an object without
\* the property ldPath.
ExecutableExecutionOptionsInputs ==
    { [args |-> <<"--version">>, stdin |-> "", ldPath |-> <<"/opt/lib">>,
       ldPathDefined |-> d, env |-> e, runtimeTools |-> l] :
          d \in BOOLEAN, e \in CallerEnvs, l \in RuntimeToolLists }

NoCall ==
    [args |-> <<>>, stdin |-> "", ldPath |-> <<>>, ldPathDefined |-> TRUE,
     env |-> EmptyEnv, runtimeTools |-> <<>>]

\* What the executable cache and the package hold for a hash: whether the
\* cache has the package, whether the packager can unpack it, the state of
\* its compilation-result.json, and the defaultExecOptions.env.PATH and
\* preparedLdPaths that file records ("" and <<>>: none).
Packages ==
    { [hit |-> h, unpacks |-> u, metadata |-> m, PATH |-> p, preparedLdPaths |-> l] :
          h \in BOOLEAN, u \in BOOLEAN, m \in {"ok", "malformed", "missing"},
          p \in {"", "/bundle/bin"}, l \in { <<>>, <<"/bundle/lib">> } }

NoPackage ==
    [hit |-> FALSE, unpacks |-> TRUE, metadata |-> "ok", PATH |-> "",
     preparedLdPaths |-> <<>>]

\* this.buildResult before downloadExecutablePackage has set it.
NoBuildResult ==
    [loaded |-> FALSE, code |-> 0, executableFilename |-> "", dirPath |-> "",
     PATH |-> "", preparedLdPaths |-> <<>>]

\* An options object of exec.sandbox; 0, "" and <<>> stand for a property
\* the object does not have.
NoExecOptions ==
    [env |-> EmptyEnv, ldPath |-> <<>>, timeoutMs |-> 0, maxOutput |-> 0,
     input |-> "", customCwd |-> "", appHome |-> ""]

NoLaunch ==
    [via |-> "none", executable |-> "", args |-> <<>>, options |-> NoExecOptions]

\* An UnprocessedExecResult or BasicExecutionResult; stdout and stderr are
\* lines of text in the first, line records in the second.
NoResult ==
    [kind |-> "none", code |-> 0, timedOut |-> FALSE, stdout |-> <<>>,
     stderr |-> <<>>, processExecutionResultTime |-> "absent"]

\* A thrown value: name, message, the JSON text of its own enumerable
\* properties, and the code, stdout and stderr it carries (hasCode FALSE:
\* code is undefined).
NoError ==
    [name |-> "", message |-> "", enumerable |-> "", hasCode |-> FALSE,
     code |-> 0, errno |-> 0, stdout |-> <<>>, stderr |-> <<>>]

Error(message) == [NoError EXCEPT !.name = "Error", !.message = message]

\* The state before 'new LocalExecutionEnvironment(environment)'.
NoEnvironment ==
    [pc |-> "none", supported |-> FALSE, useSanitizerEnvHints |-> FALSE,
     timeoutMs |-> 0, maxExecOutputSize |-> 0, dirPath |-> "",
     pkg |-> NoPackage,
     buildResult |-> NoBuildResult, op |-> "none", given |-> NoCall,
     params |-> NoCall, launch |-> NoLaunch, out |-> NoResult, err |-> NoError,
     steps |-> <<>>, assertFailed |-> FALSE]

(* --------------- LocalExecutionEnvironment: operations ----------------- *)

\* JSON.stringify(err) of a thrown value: its own enumerable properties.
\* An Error or SyntaxError has none.
JSON_stringify_error(err) == "{" \o err.enumerable \o "}"

\* The error fs.readFile(path) rejects with when the file does not exist:
\* its own enumerable properties are errno, code, syscall and path; code is
\* the string 'ENOENT', errno the number -2.
ENOENT(path) ==
    [NoError EXCEPT !.name = "Error",
                    !.message = "ENOENT: no such file or directory, open '"
                                   \o path \o "'",
                    !.enumerable = "\"errno\":-2,\"code\":\"ENOENT\",\"syscall\":\"open\",\"path\":\""
                                      \o path \o "\"",
                    !.hasCode = TRUE, !.code = "ENOENT", !.errno = 0 - 2]

\* The error temp.mkdir rejects with when the disk is full and it cannot
\* make the directory path: its own enumerable properties are errno, code,
\* syscall and path; code is the string 'ENOSPC', errno the number -28.
ENOSPC(path) ==
    [NoError EXCEPT !.name = "Error",
                    !.message = "ENOSPC: no space left on device, mkdir '"
                                   \o path \o "'",
                    !.enumerable = "\"errno\":-28,\"code\":\"ENOSPC\",\"syscall\":\"mkdir\",\"path\":\""
                                      \o path \o "\"",
                    !.hasCode = TRUE, !.code = "ENOSPC", !.errno = 0 - 28]

\* JSON.parse(buildResultsBuf.toString('utf8')) of a file that is no JSON.
SyntaxError == [NoError EXCEPT !.name = "SyntaxError", !.message = "Unexpected token"]

\* The directory temp.mkdir returns.
TempDir == "/tmp/compiler-explorer-compiler-1"

\* loadPackageWithExecutable, its try block: [threw |-> TRUE, err |-> e] for
\* a throw inside it, the value it returns otherwise.
loadPackageWithExecutable_try(pkg, dirPath) ==
    IF pkg.hit
    THEN IF ~pkg.unpacks
         THEN [threw |-> TRUE, err |-> Error("unpack failed"), value |-> NoBuildResult]
         ELSE IF pkg.metadata = "missing"
         THEN [threw |-> TRUE,
               err |-> ENOENT(dirPath \o "/compilation-result.json"),
               value |-> NoBuildResult]
         ELSE IF pkg.metadata = "malformed"
         THEN [threw |-> TRUE, err |-> SyntaxError, value |-> NoBuildResult]
         ELSE [threw |-> FALSE, err |-> NoError,
               value |-> [loaded |-> TRUE, code |-> 0,
                          executableFilename |-> dirPath \o "/a.out",
                          dirPath |-> dirPath, PATH |-> pkg.PATH,
                          preparedLdPaths |-> pkg.preparedLdPaths]]
    ELSE [threw |-> TRUE,
          err |-> Error("Tried to get executable from cache, but got a cache miss"),
          value |-> NoBuildResult]

\* Variant: executableGet without 'if (!result.hit) return null'.
loadPackageWithExecutable_calls_noHitCheck(pkg) ==
    <<"executableCache.get", "fs.writeFile", "packager.unpack">>
        \o (IF pkg.unpacks
            THEN <<"fs.readFile">>
                    \o (IF pkg.metadata # "missing" THEN <<"JSON.parse">> ELSE <<>>)
            ELSE <<>>)
\* loadPackageWithExecutable and executableGet: the awaited calls they make,
\* in order, up to the first that fails.
loadPackageWithExecutable_calls(pkg) ==
    <<"executableCache.get">>
        \o (IF pkg.hit
            THEN <<"fs.writeFile", "packager.unpack">>
                    \o (IF pkg.unpacks
                        THEN <<"fs.readFile">>
                                \o (IF pkg.metadata # "missing"
                                    THEN <<"JSON.parse">> ELSE <<>>)
                        ELSE <<>>)
            ELSE <<>>)

\* loadPackageWithExecutable and executableGet: the calls among these that
\* are awaited (JSON.parse is not).
loadPackageWithExecutable_awaits(pkg) ==
    SelectSeq(loadPackageWithExecutable_calls(pkg), LAMBDA c : c # "JSON.parse")

\* loadPackageWithExecutable, its catch block: the error it throws for the
\* caught err.
loadPackageWithExecutable_catch(err) ==
    Error("Tried to get executable from cache, but got an error: "
              \o JSON_stringify_error(err))

\* loadPackageWithExecutable(hash, dirPath) for a hash the cache and the
\* package hold pkg for.
loadPackageWithExecutable_ends(pkg, dirPath) ==
    LET t == loadPackageWithExecutable_try(pkg, dirPath)
    IN  IF t.threw
        THEN [t EXCEPT !.err = loadPackageWithExecutable_catch(t.err)]
        ELSE t

\* params.runtimeTools.find(tool => tool.name === name): its index, 0 for
\* undefined.
RECURSIVE FindFrom(_, _, _)
FindFrom(tools, name, i) ==
    IF i > Len(tools) THEN 0
    ELSE IF tools[i].name = name THEN i
    ELSE FindFrom(tools, name, i + 1)

find(tools, name) == FindFrom(tools, name, 1)

\* getDefaultExecOptions, the statement 'env[(opt.name = opt.value)];' for
\* one opt: the env after it (the statement reads a property of env and
\* assigns none) and the opt after it.
getDefaultExecOptions_envAfter(env, opt) == env

getDefaultExecOptions_optAfter(opt) == [opt EXCEPT !.name = opt.value]

RECURSIVE getDefaultExecOptions_loop(_, _)
getDefaultExecOptions_loop(env, options) ==
    IF options = <<>> THEN env
    ELSE getDefaultExecOptions_loop(getDefaultExecOptions_envAfter(env, Head(options)),
                                    Tail(options))

\* getDefaultExecOptions(params): the options it returns.
getDefaultExecOptions(buildResult, params) ==
    LET i == find(params.runtimeTools, "env")
        env0 == [k \in {"PATH"} |-> ""]
        env1 == IF i # 0
                THEN getDefaultExecOptions_loop(env0, params.runtimeTools[i].options)
                ELSE env0
        env2 == IF buildResult.loaded /\ buildResult.PATH # ""
                THEN IF Len(env1["PATH"]) > 0
                     THEN EnvSet(env1, "PATH",
                                 env1["PATH"] \o PathDelimiter \o buildResult.PATH)
                     ELSE EnvSet(env1, "PATH", buildResult.PATH)
                ELSE env1
    IN  [NoExecOptions EXCEPT
            !.env = env2,
            !.ldPath = IF buildResult.loaded THEN buildResult.preparedLdPaths ELSE <<>>]

\* getDefaultExecOptions(params): the params object after the call.
getDefaultExecOptions_params(params) ==
    LET i == find(params.runtimeTools, "env")
    IN  IF i = 0 THEN params
        ELSE [params EXCEPT !.runtimeTools[i].options =
                 [j \in DOMAIN @ |-> getDefaultExecOptions_optAfter(@[j])]]

\* execute(params): the call of exec.sandbox it makes.
execute_launch(buildResult, params) ==
    [via |-> "sandbox", executable |-> buildResult.executableFilename,
     args |-> params.args, options |-> getDefaultExecOptions(buildResult, params)]

RECURSIVE SetAll(_, _)
SetAll(env, options) ==
    IF options = <<>> THEN env
    ELSE SetAll(EnvSet(env, Head(options).name, Head(options).value), Tail(options))

\* setEnvironmentVariablesFromRuntime(configuredTools, execOptions): the
\* execOptions.env after it.
RECURSIVE setEnvironmentVariablesFromRuntime(_, _)
setEnvironmentVariablesFromRuntime(configuredTools, env) ==
    IF configuredTools = <<>> THEN env
    ELSE LET runtime == Head(configuredTools)
         IN  setEnvironmentVariablesFromRuntime(
                 Tail(configuredTools),
                 IF runtime.name = "env" THEN SetAll(env, runtime.options) ELSE env)

SanitizerEnvHints ==
    [k \in {"ASAN_OPTIONS", "UBSAN_OPTIONS", "MSAN_OPTIONS", "LSAN_OPTIONS"} |->
        "color=always"]

\* Variant: the hints spread after the env of the caller.
execBinary_env_hintsLast(useSanitizerEnvHints, callerEnv) ==
    IF useSanitizerEnvHints THEN Spread(callerEnv, SanitizerEnvHints) ELSE callerEnv
\* execBinary: execOptions.env, {ASAN_OPTIONS: ..., ...executeParameters.env}
\* with the hints and {...executeParameters.env} without.
execBinary_env(useSanitizerEnvHints, callerEnv) ==
    IF useSanitizerEnvHints THEN Spread(SanitizerEnvHints, callerEnv) ELSE callerEnv

\* execBinary: the execOptions its try block builds.
execBinary_execOptions(this, executeParameters, homeDir) ==
    [maxOutput |-> this.maxExecOutputSize,
     timeoutMs |-> this.timeoutMs,
     ldPath |-> executeParameters.ldPath,
     input |-> executeParameters.stdin,
     customCwd |-> homeDir,
     appHome |-> homeDir,
     env |-> execBinary_env(this.useSanitizerEnvHints, executeParameters.env)]

\* Variant: the wrapper is used for every tool that is no env tool.
execBinaryMaybeWrapped_wrapped_anyTool(runtimeTools, isSupported) ==
    (\E i \in DOMAIN runtimeTools : runtimeTools[i].name # "env") /\ isSupported
\* Variant: the wrapper is used whenever a heaptrack tool is asked for.
execBinaryMaybeWrapped_wrapped_unchecked(runtimeTools, isSupported) ==
    find(runtimeTools, "heaptrack") # 0
\* execBinaryMaybeWrapped: 'runWithHeaptrack &&
\* HeaptrackWrapper.isSupported(this.environment)'
execBinaryMaybeWrapped_wrapped(runtimeTools, isSupported) ==
    find(runtimeTools, "heaptrack") # 0 /\ isSupported

\* execBinaryMaybeWrapped: the call of wrapper.exec or exec.sandbox it makes.
execBinaryMaybeWrapped_launch(executable, args, execOptions, executeParameters, isSupported) ==
    [via |-> IF execBinaryMaybeWrapped_wrapped(executeParameters.runtimeTools, isSupported)
             THEN "heaptrack" ELSE "sandbox",
     executable |-> executable,
     args |-> args,
     options |-> [execOptions EXCEPT !.env =
                     setEnvironmentVariablesFromRuntime(executeParameters.runtimeTools, @)]]

\* execBinaryMaybeWrapped: the stdErrlineParseOptions of the path taken.
execBinaryMaybeWrapped_parseOptions(via) ==
    IF via = "heaptrack" THEN {"AtFileLine"} ELSE {}

\* A line of the form 'at file:line'.
IsAtFileLine(line) == line \in {"at main.rs:3"}

\* utils.parseOutput(lines, undefined, undefined, options): one line record
\* per line, with a source location tag ("" for none) on the lines of the
\* form 'at file:line' when the options hold AtFileLine.
parseOutput(lines, options) ==
    [i \in DOMAIN lines |->
        [text |-> lines[i],
         sourceLocationTag |->
            IF "AtFileLine" \in options /\ IsAtFileLine(lines[i])
            THEN "main.rs:3" ELSE ""]]

\* processUserExecutableExecutionResult(input, stdErrlineParseOptions)
processUserExecutableExecutionResult(input, stdErrlineParseOptions) ==
    [input EXCEPT !.stdout = parseOutput(input.stdout, {}),
                  !.stderr = parseOutput(input.stderr, stdErrlineParseOptions),
                  !.processExecutionResultTime = "measured"]

\* utils.processExecutionResult(err) and the other branch of the catch block
\* of execBinary: the result it returns for the caught err.
execBinary_catch(err) ==
    IF err.hasCode /\ err.code # 0 /\ err.stderr # <<>>
    THEN [NoResult EXCEPT !.kind = "result", !.code = err.code,
                          !.stdout = parseOutput(err.stdout, {}),
                          !.stderr = parseOutput(err.stderr, {})]
    ELSE [NoResult EXCEPT !.kind = "result",
                          !.code = IF err.hasCode THEN err.code ELSE -1,
                          !.stdout = parseOutput(err.stdout, {}),
                          !.stderr = parseOutput(err.stderr, {})]

\* '[...executeParameters.ldPath]' of a value without ldPath.
TypeError == [NoError EXCEPT !.name = "TypeError", !.message = "not iterable"]

\* What exec.sandbox and wrapper.exec resolve with for a launch: a run to
\* the end, a run that crashes and, under a timeout, a run that is killed
\* when it exceeds it.
RawResults ==
    { [NoResult EXCEPT !.kind = "raw", !.stdout = <<"hello", "at main.rs:3">>],
      [NoResult EXCEPT !.kind = "raw", !.code = 1,
                       !.stderr = <<"panicked", "at main.rs:3">>],
      [NoResult EXCEPT !.kind = "raw", !.code = -1, !.timedOut = TRUE,
                       !.stderr = <<"Killed - processing time exceeded">>] }

SandboxResults(options) ==
    { raw \in RawResults : raw.timedOut => options.timeoutMs > 0 }

\* What exec.sandbox and wrapper.exec reject with: an error with code and
\* stderr, and one without.
SandboxErrors ==
    { [NoError EXCEPT !.name = "Error", !.message = "exited", !.hasCode = TRUE,
                      !.code = 127, !.stderr = <<"not found">>],
      [NoError EXCEPT !.name = "Error", !.message = "spawn failed"] }

(* ---------------------------- StatsNoter: values ----------------------- *)

\* The number of noteCompilation calls followed.
MaxNotes == 3

\* 'flushMs ?? 5 * 60 * 1000'.
DefaultFlushAfterMs == 5 * 60 * 1000

\* The flushMs arguments followed: 0 stands for undefined.
FlushMsInputs == {0, 1000}

\* 'flushMs ?? 5 * 60 * 1000'.
StatsNoter_flushAfterMs(flushMs) ==
    IF flushMs = 0 THEN DefaultFlushAfterMs ELSE flushMs

\* A compiler argument is the sequence of its characters.
\* capturableArg = /^[-/]/.
capturableArg(x) == Len(x) >= 1 /\ x[1] \in {"-", "/"}

\* unwantedArg = /^(([-/][iIdD])|(-$))/.
unwantedArg(x) ==
    \/ Len(x) >= 2 /\ x[1] \in {"-", "/"} /\ x[2] \in {"i", "I", "d", "D"}
    \/ x = <<"-">>

\* args.filter(x => capturableArg.exec(x) && !unwantedArg.exec(x)).
filterCompilerOptions(args) ==
    SelectSeq(args, LAMBDA x : capturableArg(x) /\ ~unwantedArg(x))

\* The ParsedRequests followed.  A filter entry carries the typeof of its
\* value; options are compiler arguments.
ParsedRequests ==
    { [source |-> "int main(){}", executionParameters |-> "",
       options |-> << <<"-", "O", "2">>, <<"-", "D", "X">>, <<"a", ".", "c">> >>,
       filters |-> << [key |-> "binary", typeof |-> "boolean", value |-> "true"],
                      [key |-> "labels", typeof |-> "string", value |-> "all"] >>,
       bypassCache |-> FALSE],
      [source |-> "fn main(){}", executionParameters |-> "--help",
       options |-> << <<"-">>, <<"/", "W", "4">>, <<"/", "I", "x">> >>,
       filters |-> << [key |-> "execute", typeof |-> "boolean", value |-> "false"] >>,
       bypassCache |-> TRUE],
      [source |-> "int main(){}", executionParameters |-> "",
       options |-> <<>>,
       filters |-> <<>>,
       bypassCache |-> FALSE] }

\* makeSafe(time, request): the CompilationRecord of a request.  getHash is a
\* digest of its argument, kept here as the pair of the function and the text.
makeSafe(time, request) ==
    [time |-> time,
     sourceHash |-> <<"getHash", request.source>>,
     executionParamsHash |-> <<"getHash", request.executionParameters>>,
     options |-> filterCompilerOptions(request.options),
     filters |-> SelectSeq(request.filters, LAMBDA e : e.typeof = "boolean"),
     bypassCache |-> request.bypassCache]

\* flush: 'this._statsQueue = []' once toFlush holds the queue.
flush_statsQueue_keep(toFlush) == toFlush

flush_statsQueue(toFlush) == <<>>

\* noteCompilation: 'if (!this._flushJob)', the call sets a timer.
noteCompilation_setsTimer_always(flushJob) == flushJob = flushJob

noteCompilation_setsTimer(flushJob) == flushJob = 0

\* The state before 'new StatsNoter(bucket, path, region, flushMs)'.
\* flushJob 0 is undefined; pending holds the handles of the timers set and
\* neither fired nor cleared; puts are the calls of this._s3.put, in order;
\* noted are the records pushed, in order; last is the last method that ran.
NoStatsNoter ==
    [pc |-> "none", statsQueue |-> <<>>, flushAfterMs |-> 0, flushJob |-> 0,
     pending |-> {}, nextTimer |-> 1, puts |-> <<>>, noted |-> <<>>,
     warned |-> {}, now |-> 0, last |-> "none"]

(* ------------------------------ text values ---------------------------- *)

\* A JavaScript string whose characters matter is the sequence of them.
\* haystack.indexOf(needle): the first position from 0, or -1.
indexOf(haystack, needle) ==
    LET at == { i \in 1..(Len(haystack) - Len(needle) + 1) :
                  SubSeq(haystack, i, i + Len(needle) - 1) = needle }
    IN  IF at = {} THEN 0 - 1
        ELSE (CHOOSE i \in at : \A j \in at : i <= j) - 1

\* haystack.includes(needle).
includes(haystack, needle) == indexOf(haystack, needle) # 0 - 1

Digits == <<"0", "1", "2", "3", "4", "5", "6", "7", "8", "9">>

\* String(n) of a number n >= 0.
RECURSIVE NumberToString(_)
NumberToString(n) ==
    IF n < 10 THEN <<Digits[n + 1]>>
    ELSE NumberToString(n \div 10) \o <<Digits[(n % 10) + 1]>>

\* parseInt(s) of a string of digits (NaN, here -1, when it has no digits).
RECURSIVE parseInt(_)
parseInt(s) ==
    IF s = <<>> THEN 0 - 1
    ELSE LET d == CHOOSE k \in 0..9 : Digits[k + 1] = s[Len(s)]
         IN  IF Len(s) = 1 THEN d
             ELSE parseInt(SubSeq(s, 1, Len(s) - 1)) * 10 + d

(* ---------------------------- Diff pane: values ------------------------ *)

\* An id is 'number | string'; state.lhs of a new pane may be undefined.
NoId == [type |-> "undefined", num |-> 0, str |-> <<>>]

Num(n) == [type |-> "number", num |-> n, str |-> <<>>]

Str(s) == [type |-> "string", num |-> 0, str |-> s]

\* '!id' is false for these ids.
Truthy(id) ==
    \/ id.type = "number" /\ id.num # 0
    \/ id.type = "string" /\ id.str # <<>>

\* id + '_exec' of a number id.
ExecId(id) == Str(NumberToString(id) \o <<"_", "e", "x", "e", "c">>)

\* The property key of this.compilers[id]; id.toString().
PropertyKey(id) ==
    IF id.type = "number" THEN NumberToString(id.num)
    ELSE IF id.type = "string" THEN id.str
    ELSE <<"u", "n", "d", "e", "f", "i", "n", "e", "d">>

\* The ids of the compiler panes and of the executor panes of the layout.
CompilerIds == {1, 2}

ExecutorIds == {1}

Null == [type |-> "null"]

\* The compiler objects announced: null, or an object with a name.
CompilerInfos ==
    { Null,
      [name |-> <<"x", "8", "6", "-", "6", "4", " ", "c", "l", "a", "n", "g", " ", "(", "t", "r", "u", "n", "k", ")">>] }

\* The options announced with a compiler: undefined is the empty sequence.
CompilerOptionInputs == { <<>>, <<"-", "O", "2", " ", "-", "W", "a", "l", "l">> }

\* The difftypes a user picks here.
DiffTypePicks == { "DiffType_ASM", "DiffType_CompilerStdOut", "DiffType_ExecStdOut" }

\* The states a pane is constructed from: lhs, rhs and the two difftypes
\* ("" is undefined).
DiffStates ==
    { [lhs |-> NoId, rhs |-> NoId, lhsdifftype |-> "", rhsdifftype |-> ""],
      [lhs |-> Num(1), rhs |-> NoId, lhsdifftype |-> "", rhsdifftype |-> ""],
      [lhs |-> Num(1), rhs |-> ExecId(1), lhsdifftype |-> "DiffType_ASM",
       rhsdifftype |-> "DiffType_ExecStdOut"] }

\* The results of compilations: a field that is not in the object is not in
\* the record.
CompileResults ==
    { [code |-> 0, asm |-> <<"mov eax, 1", "ret">>, stdout |-> <<>>,
       stderr |-> <<>>],
      [code |-> 1, asm |-> <<"<Compilation failed>">>, stdout |-> <<"note">>,
       stderr |-> <<"error: expected ;">>] }

\* The results of executions: buildResult is the compilation behind it.
ExecuteResults ==
    { [code |-> 0, stdout |-> <<"hello", "world">>, stderr |-> <<>>,
       buildResult |-> [code |-> 0, asm |-> <<"mov eax, 1", "ret">>,
                        stdout |-> <<>>, stderr |-> <<>>]] }

\* r[f] || [].
OrEmpty(r, f) == IF f \in DOMAIN r THEN r[f] ELSE <<>>

\* output.map(x => x.text).join('\n').
RECURSIVE join(_)
join(output) ==
    IF output = <<>> THEN ""
    ELSE IF Len(output) = 1 THEN output[1]
    ELSE join(SubSeq(output, 1, Len(output) - 1)) \o "\n" \o output[Len(output)]

\* DiffStateObject.refresh: the lines shown for a result under a difftype.
refresh_output(result, difftype) ==
    IF result = Null THEN <<>>
    ELSE IF difftype = "DiffType_ASM" THEN OrEmpty(result, "asm")
    ELSE IF difftype = "DiffType_CompilerStdOut" THEN OrEmpty(result, "stdout")
    ELSE IF difftype = "DiffType_CompilerStdErr" THEN OrEmpty(result, "stderr")
    ELSE IF difftype = "DiffType_ExecStdOut"
         THEN IF "execResult" \in DOMAIN result
              THEN OrEmpty(result.execResult, "stdout") ELSE <<>>
    ELSE IF difftype = "DiffType_ExecStdErr"
         THEN IF "execResult" \in DOMAIN result
              THEN OrEmpty(result.execResult, "stderr") ELSE <<>>
    ELSE IF difftype = "DiffType_GNAT_ExpandedCode"
         THEN IF "hasGnatDebugOutput" \in DOMAIN result /\ result.hasGnatDebugOutput
              THEN OrEmpty(result, "gnatDebugOutput") ELSE <<>>
    ELSE IF difftype = "DiffType_GNAT_Tree"
         THEN IF "hasGnatDebugTreeOutput" \in DOMAIN result
                 /\ result.hasGnatDebugTreeOutput
              THEN OrEmpty(result, "gnatDebugTreeOutput") ELSE <<>>
    ELSE <<>>

\* DiffStateObject.refresh: this.model.setValue(...).
refresh(side) ==
    [side EXCEPT !.text = join(refresh_output(side.result, side.difftype))]

\* new DiffStateObject(id, model, difftype) on a new, empty model.
DiffStateObject(id, difftype) ==
    [id |-> id, text |-> "", compiler |-> Null, result |-> Null,
     difftype |-> difftype]

\* DiffStateObject.update: 'if (this.id !== id) return false'.
update_matches_any(side, id) == side.id = side.id

update_matches(side, id) == side.id = id

\* DiffStateObject.update(id, compiler, result): the side afterwards.
update(side, id, compiler, result) ==
    IF ~update_matches(side, id) THEN side
    ELSE refresh([side EXCEPT !.compiler = compiler, !.result = result])

\* onExecuteResult: Object.assign({}, result.buildResult) with execResult set.
onExecuteResult_compileResult(result) ==
    LET buildResult == IF "buildResult" \in DOMAIN result
                       THEN result.buildResult ELSE <<>>
        execResult == [code |-> result.code, stdout |-> result.stdout,
                       stderr |-> result.stderr]
    IN  [f \in DOMAIN buildResult \cup {"execResult"} |->
            IF f = "execResult" THEN execResult ELSE buildResult[f]]

\* requestResendResult(id): the events it emits.
requestResendResult(id) ==
    IF id.type = "string"
    THEN LET p == indexOf(id.str, <<"_", "e", "x", "e", "c">>)
         IN  IF p # 0 - 1
             THEN << [event |-> "resendExecution",
                      id |-> Num(parseInt(SubSeq(id.str, 1, p)))] >>
             ELSE <<>>
    ELSE << [event |-> "resendCompilation", id |-> id] >>

maxLength == 30

\* onCompiler: the name of the entry, cut to maxLength with '...'.
onCompiler_name(compiler, options) ==
    LET name == compiler.name \o <<" ">> \o options
    IN  IF Len(name) > maxLength - 3
        THEN SubSeq(name, 1, maxLength - 3) \o <<".", ".", ".">>
        ELSE name

\* onCompiler: the CompilerEntry stored in this.compilers[id].
CompilerEntry(id, compiler, options, editorId, treeId) ==
    [id |-> id, name |-> onCompiler_name(compiler, options),
     options |-> options, editorId |-> editorId, treeId |-> treeId,
     compiler |-> compiler]

\* onCompiler: 'if (!this.lhs.id)', 'if (!this.rhs.id)'.
onCompiler_takes_always(side) == side = side

onCompiler_takes(side) == ~Truthy(side.id)

\* 'delete this.compilers[id]'.
onCompilerClose_delete(compilers, id) ==
    [k \in DOMAIN compilers \ {PropertyKey(id)} |-> compilers[k]]

\* A picker of compilers: its options and its value (<<>> is no value).
NoSelect == [options |-> {}, value |-> <<>>]

\* The state before 'new Diff(hub, container, state)'.
NoDiff ==
    [pc |-> "none", compilers |-> <<>>,
     lhs |-> DiffStateObject(NoId, ""), rhs |-> DiffStateObject(NoId, ""),
     selectize |-> [lhs |-> NoSelect, rhs |-> NoSelect,
                    lhsdifftype |-> "", rhsdifftype |-> ""],
     emitted |-> <<>>, calls |-> 0,
     last |-> [op |-> "none", id |-> NoId, compiler |-> Null, result |-> Null]]

(* ------------------------- AssemblyCompiler: values -------------------- *)

\* path.join(a, b) of two plain path parts.
path_join(a, b) == a \o <<"/">> \o b

\* path.dirname(fn) of a path with a folder.
RECURSIVE path_dirname(_)
path_dirname(fn) ==
    IF fn = <<>> THEN <<".">>
    ELSE IF fn[Len(fn)] = "/" THEN SubSeq(fn, 1, Len(fn) - 1)
    ELSE path_dirname(SubSeq(fn, 1, Len(fn) - 1))

\* The folder a build runs in.
BuildDirPath == <<"/", "t", "m", "p", "/", "c", "e">>

\* this.compileFilename: 'example' and the first extension of the language.
CompileFilenames == { <<"e", "x", "a", "m", "p", "l", "e", ".", "a", "s", "m">>, <<"e", "x", "a", "m", "p", "l", "e", ".", "s">> }

\* What fs.readdirSync finds in the folder once the assembler has run.
DirectoryListings(compileFilename) ==
    { <<compileFilename>>,
      <<compileFilename, <<"e", "x", "a", "m", "p", "l", "e", ".", "o">>>>,
      <<<<".", "c", "a", "c", "h", "e">>, compileFilename>>,
      <<<<"e", "x", "a", "m", "p", "l", "e", ".", "o">>, compileFilename, <<".", "c", "a", "c", "h", "e">>>> }

AllDirectoryListings ==
    UNION { DirectoryListings(compileFilename) : compileFilename \in CompileFilenames }

\* getGeneratedOutputFilename: the loop over the files from position i.
RECURSIVE getGeneratedOutputFilename_loop(_, _, _, _, _)
getGeneratedOutputFilename_loop(files, i, outputFolder, compileFilename, outputFilename) ==
    IF i > Len(files) THEN outputFilename
    ELSE getGeneratedOutputFilename_loop(files, i + 1, outputFolder, compileFilename,
            IF files[i][1] # "." /\ files[i] # compileFilename
            THEN path_join(outputFolder, files[i])
            ELSE outputFilename)

\* getGeneratedOutputFilename(fn) in a folder with these files.
getGeneratedOutputFilename(fn, files, compileFilename) ==
    getGeneratedOutputFilename_loop(files, 1, path_dirname(fn), compileFilename, fn)

\* getOutputFilename(dirPath).
getOutputFilename(dirPath, files, compileFilename) ==
    getGeneratedOutputFilename(path_join(dirPath, <<"e", "x", "a", "m", "p", "l", "e", ".", "a", "s", "m">>), files, compileFilename)

\* getExecutableFilename(dirPath).
getExecutableFilename(dirPath) == path_join(dirPath, <<"c", "e", "-", "a", "s", "m", "-", "e", "x", "e", "c", "u", "t", "a", "b", "l", "e">>)

\* The results of buildExecutable: the run of the assembler.
BuildExecutableResults ==
    { [code |-> 0, stdout |-> <<>>, stderr |-> <<>>],
      [code |-> 1, stdout |-> <<>>, stderr |-> <<"error: invalid instruction">>] }

\* The outputs of 'readelf -h' followed, line by line.
ReadelfOutputs ==
    { << <<"C", "l", "a", "s", "s", ":", " ", "E", "L", "F", "3", "2">>,
           <<"M", "a", "c", "h", "i", "n", "e", ":", " ", "I", "n", "t", "e", "l", " ", "8", "0", "3", "8", "6">> >>,
      << <<"C", "l", "a", "s", "s", ":", " ", "E", "L", "F", "6", "4">>,
           <<"M", "a", "c", "h", "i", "n", "e", ":", " ", "X", "8", "6", "-", "6", "4">> >>,
      << <<"a", ".", "o", ":", " ", "M", "a", "c", "h", "-", "O", " ", "6", "4", "-", "b", "i", "t", " ", "x", "8", "6", "-", "6", "4">> >>,
      << <<"C", "l", "a", "s", "s", ":", " ", "E", "L", "F", "6", "4">>,
           <<"M", "a", "c", "h", "i", "n", "e", ":", " ", "A", "A", "r", "c", "h", "6", "4">> >>,
      << <<"C", "l", "a", "s", "s", ":", " ", "E", "L", "F", "3", "2">>,
           <<"M", "a", "c", "h", "i", "n", "e", ":", " ", "A", "R", "M">>,
           <<"E", "n", "t", "r", "y", ":", " ", "0", "x", "8", "0", "3", "8", "6">> >>,
      <<>> }

\* result.stdout.map(line => line.text).join('\n').
RECURSIVE joinLines(_)
joinLines(lines) ==
    IF lines = <<>> THEN <<>>
    ELSE IF Len(lines) = 1 THEN lines[1]
    ELSE joinLines(SubSeq(lines, 1, Len(lines) - 1)) \o <<"\n">> \o lines[Len(lines)]

\* getArchitecture: 'x86', 'x86_64' or false, from the output of readelf.
getArchitecture(stdout) ==
    LET output == joinLines(stdout)
    IN  IF includes(output, <<"E", "L", "F", "3", "2">>) /\ includes(output, <<"8", "0", "3", "8", "6">>) THEN "x86"
        ELSE IF includes(output, <<"E", "L", "F", "6", "4">>) /\ includes(output, <<"X", "8", "6", "-", "6", "4">>) THEN "x86_64"
        ELSE IF includes(output, <<"M", "a", "c", "h", "-", "O", " ", "6", "4", "-", "b", "i", "t", " ", "x", "8", "6", "-", "6", "4">>) THEN "x86_64"
        ELSE "false"

\* runLinker: the branches that go on to the linker.
runLinker_links_any(inputArch) == inputArch = inputArch

runLinker_links(inputArch) == inputArch \in {"x86", "x86_64"}

\* runLinker: the arguments of the linker.
runLinker_options(inputArch, objectFilename, outputFilename, extraOptions) ==
    (<< <<"-", "o">>, outputFilename >>
        \o (IF inputArch = "x86" THEN << <<"-", "m">>, <<"e", "l", "f", "_", "i", "3", "8", "6">> >> ELSE <<>>)
        \o << objectFilename >>) \o extraOptions

\* runLinker: the build step made for any other architecture.
runLinker_invalid ==
    [code |-> 0 - 1, okToCache |-> FALSE, execTime |-> "0", step |-> "ld",
     timedOut |-> FALSE,
     stderr |-> <<"Invalid architecture for linking and execution">>,
     stdout |-> <<>>]

\* The links of the libraries of a request: getSharedLibraryLinks.
LibraryLinks == { <<>>, << <<"-", "l", "m">> >> }

\* The results of the linker followed.
LinkerResults ==
    { [code |-> 0, stdout |-> <<>>, stderr |-> <<>>],
      [code |-> 1, stdout |-> <<>>, stderr |-> <<"ld: undefined reference">>] }

\* The state before buildExecutableInFolder is called.
NoAssemblyCompiler ==
    [pc |-> "none", compileFilename |-> <<>>, inputFilename |-> <<>>,
     outputFilename |-> <<>>, objectFilename |-> <<>>, exists |-> FALSE,
     files |-> <<>>, libOpts |-> <<>>, inputArch |-> "none",
     compiled |-> [code |-> 0, stdout |-> <<>>, stderr |-> <<>>],
     fullResult |-> [code |-> 0, stdout |-> <<>>, stderr |-> <<>>,
                     buildsteps |-> <<>>, executableFilename |-> <<>>],
     execs |-> <<>>]

(* ------------------------------- state --------------------------------- *)

VARIABLES
    queue_url,    \* the property execqueue.queue_url of this deployment
    requester,    \* the SqsExecuteRequester: "init", "ready" or "fatal"
    wstate,       \* per worker process: "init", "running" or "fatal"
    timers,       \* per worker: the delays of its pending setTimeout calls
    task,         \* per worker and slot: one invocation of doExecutionWork
    queue,        \* the broker: messages in arrival order, all queues together
    dedupSeen,    \* the broker: (QueueUrl, MessageDeduplicationId) in the window
    nextId,       \* the broker: next MessageId
    nextHandle,   \* the broker: next ReceiptHandle
    expiries,     \* the broker: visibility timeouts that have run out
    sendLog,      \* history: every sendMessage call, in order
    popLog,       \* history: how every call of pop ended
    done,         \* history: how every iteration that held a request ended
    notifier,     \* history: every send and close of an EventsWsSender
    tmp,          \* os.tmpdir(): the directories in it and the next temp.mkdir
    le,           \* a LocalExecutionEnvironment and the call it is in
    sn,           \* a StatsNoter, its timers and its S3 puts
    dp,           \* a Diff pane: its sides, known compilers and pickers
    ac            \* an AssemblyCompiler in buildExecutableInFolder

vars ==
    <<queue_url, requester, wstate, timers, task, queue, dedupSeen, nextId,
      nextHandle, expiries, sendLog, popLog, done, notifier, tmp, le, sn, dp, ac>>

IdleTask ==
    [pc |-> "idle", id |-> 0, body |-> <<>>, handle |-> 0, msg |-> Undefined,
     dir |-> 0]

Init ==
    /\ queue_url \in QueueUrlProps
    /\ requester = "init"
    /\ wstate = [w \in Workers |-> "init"]
    /\ timers = [w \in Workers |-> <<>>]
    /\ task = [w \in Workers |-> [s \in Slots |-> IdleTask]]
    /\ queue = <<>>
    /\ dedupSeen = {}
    /\ nextId = 1
    /\ nextHandle = 1
    /\ expiries = 0
    /\ sendLog = <<>>
    /\ popLog = {}
    /\ done = {}
    /\ notifier = <<>>
    /\ tmp = [next |-> 1, dirs |-> {}]
    /\ le = NoEnvironment
    /\ sn = NoStatsNoter
    /\ dp = NoDiff
    /\ ac = NoAssemblyCompiler

(* ------------------------------- broker -------------------------------- *)

Min(a, b) == IF a <= b THEN a ELSE b

\* sqs.sendMessage on a FIFO queue: a message whose deduplication id was
\* already seen on that queue within the window is accepted and dropped.
Broker_sendMessage(call) ==
    IF <<call.QueueUrl, call.MessageDeduplicationId>> \in dedupSeen
    THEN UNCHANGED <<queue, dedupSeen, nextId>>
    ELSE /\ queue' = Append(queue, [id |-> nextId, url |-> call.QueueUrl,
                                    body |-> call.MessageBody, handle |-> 0])
         /\ dedupSeen' = dedupSeen \cup {<<call.QueueUrl, call.MessageDeduplicationId>>}
         /\ nextId' = nextId + 1

\* The MessageId under which a sendMessage call is queued; 0 when the call
\* is dropped as a duplicate.
Broker_messageId(call) ==
    IF <<call.QueueUrl, call.MessageDeduplicationId>> \in dedupSeen THEN 0 ELSE nextId

\* Variant: a queue that hands out its newest messages first.
Broker_receivable_newest(url, max) ==
    LET mine == SelectSeq(queue, LAMBDA e : e.url = url)
    IN  IF \E i \in DOMAIN mine : mine[i].handle # 0
        THEN <<>>
        ELSE SubSeq(mine, Len(mine) - Min(max, Len(mine)) + 1, Len(mine))
\* What sqs.receiveMessage returns for a queue: its oldest messages, at most
\* max of them; nothing while a message of the (single) message group is in
\* flight.
Broker_receivable(url, max) ==
    LET mine == SelectSeq(queue, LAMBDA e : e.url = url)
    IN  IF \E i \in DOMAIN mine : mine[i].handle # 0
        THEN <<>>
        ELSE SubSeq(mine, 1, Min(max, Len(mine)))

\* The queue once the messages got are in flight under receipt handle h.
Broker_inFlight(got, h) ==
    LET ids == { got[i].id : i \in DOMAIN got }
    IN  [i \in DOMAIN queue |->
            IF queue[i].id \in ids THEN [queue[i] EXCEPT !.handle = h] ELSE queue[i]]

\* sqs.deleteMessage on a FIFO queue (the url ends in '.fifo'): TRUE when
\* the receipt handle is that of a message still in flight under it.  A
\* receipt handle whose visibility timeout has run out is refused: the call
\* fails, nothing is deleted.
Broker_deleteMessage_accepts(url, h) ==
    \E i \in DOMAIN queue : queue[i].url = url /\ queue[i].handle = h

\* sqs.deleteMessage: removes the message the receipt handle belongs to.
Broker_deleteMessage(url, h) ==
    SelectSeq(queue, LAMBDA e : ~(e.url = url /\ e.handle = h))

\* The visibility timeout of a message that was received and not deleted
\* runs out: its receipt handle expires and it can be received again, under
\* a new receipt handle.  Nothing in pop bounds the time between its
\* receiveMessage and its deleteMessage.
VisibilityTimeout ==
    /\ expiries < MaxExpiries
    /\ expiries' = expiries + 1
    /\ \E i \in DOMAIN queue :
        /\ queue[i].handle # 0
        /\ queue' = [queue EXCEPT ![i].handle = 0]
    /\ UNCHANGED <<tmp, le, sn, dp, ac>>
    /\ UNCHANGED <<queue_url, requester, wstate, timers, task, dedupSeen, nextId,
                   nextHandle, sendLog, popLog, done, notifier>>

(* ----------------------------- queue clients --------------------------- *)

\* Variant: a constructor without the check of queue_url.
SqsExecuteQueueBase_unchecked(url) == TRUE
\* SqsExecuteQueueBase.constructor: TRUE when it returns, FALSE when it
\* throws 'execqueue.queue_url property required'.
SqsExecuteQueueBase_constructor(url) == url # ""

\* new SqsExecuteRequester(props, awsProps)
ConstructRequester ==
    /\ requester = "init"
    /\ requester' =
          IF SqsExecuteQueueBase_constructor(queue_url) THEN "ready" ELSE "fatal"
    /\ UNCHANGED <<tmp, le, sn, dp, ac>>
    /\ UNCHANGED <<queue_url, wstate, timers, task, queue, dedupSeen, nextId,
                   nextHandle, expiries, sendLog, popLog, done, notifier>>

\* Variant: a deduplication id that also depends on the call.
DeduplicationId_perCall(body) == getHash(body) \o <<ToString(Len(sendLog))>>
\* MessageDeduplicationId: getHash(body)
DeduplicationId(body) == getHash(body)

\* SqsExecuteRequester.push(triple, message)
push(triple, message) ==
    /\ requester = "ready"
    /\ Len(sendLog) < MaxPush
    /\ LET body == JSON_stringify(message)
           call == [QueueUrl |-> getSqsQueueUrl(queue_url, triple),
                    MessageBody |-> body,
                    MessageGroupId |-> "default",
                    MessageDeduplicationId |-> DeduplicationId(body)]
       IN  /\ Broker_sendMessage(call)
           /\ sendLog' = Append(sendLog, [by |-> "push", triple |-> triple,
                                          id |-> Broker_messageId(call), call |-> call,
                                          message |-> message])
    /\ UNCHANGED <<tmp, le, sn, dp, ac>>
    /\ UNCHANGED <<queue_url, requester, wstate, timers, task, nextHandle, expiries,
                   popLog, done, notifier>>

\* Another producer sends a body of its own to the queue of the workers.
ForeignSend(body) ==
    /\ queue_url # ""
    /\ Len(sendLog) < MaxPush
    /\ LET call == [QueueUrl |-> getSqsQueueUrl(queue_url, DefaultTriple),
                    MessageBody |-> body,
                    MessageGroupId |-> "default",
                    MessageDeduplicationId |-> <<"producer", ToString(nextId)>>]
       IN  /\ Broker_sendMessage(call)
           /\ sendLog' = Append(sendLog, [by |-> "foreign", triple |-> DefaultTriple,
                                          id |-> Broker_messageId(call), call |-> call,
                                          message |-> Undefined])
    /\ UNCHANGED <<tmp, le, sn, dp, ac>>
    /\ UNCHANGED <<queue_url, requester, wstate, timers, task, nextHandle, expiries,
                   popLog, done, notifier>>

(* ------------------------------ worker loop ---------------------------- *)

\* The queue a worker polls: getSqsQueueUrl(this.triple).
WorkerUrl == getSqsQueueUrl(queue_url, DefaultTriple)

\* startExecutionWorkerThread: new SqsWorkerMode(ceProps, awsProps), then
\* setTimeout(doExecutionWork, 1500).
startExecutionWorkerThread(w) ==
    /\ wstate[w] = "init"
    /\ IF SqsExecuteQueueBase_constructor(queue_url)
       THEN /\ wstate' = [wstate EXCEPT ![w] = "running"]
            /\ timers' = [timers EXCEPT ![w] = Append(@, InitialDelayMs)]
       ELSE /\ wstate' = [wstate EXCEPT ![w] = "fatal"]
            /\ UNCHANGED timers
    /\ UNCHANGED <<tmp, le, sn, dp, ac>>
    /\ UNCHANGED <<queue_url, requester, task, queue, dedupSeen, nextId,
                   nextHandle, expiries, sendLog, popLog, done, notifier>>

\* Variant: a timer that stays pending after it fired (setInterval).
TimersAfterFire_interval(ts, i) == ts
\* The pending timers of a worker once timer i has fired: setTimeout fires
\* once.
TimersAfterFire(ts, i) == SubSeq(ts, 1, i - 1) \o SubSeq(ts, i + 1, Len(ts))

\* A timer of worker w fires: doExecutionWork is invoked and reaches
\* 'await queue.pop()', pop reaches 'await this.sqs.receiveMessage(...)'.
TimerFire(w, s) ==
    /\ task[w][s].pc = "idle"
    /\ \A s2 \in Slots : s2 < s => task[w][s2].pc # "idle"
    /\ \E i \in DOMAIN timers[w] :
          timers' = [timers EXCEPT ![w] = TimersAfterFire(@, i)]
    /\ task' = [task EXCEPT ![w][s].pc = "pop_receive"]
    /\ UNCHANGED <<tmp, le, sn, dp, ac>>
    /\ UNCHANGED <<queue_url, requester, wstate, queue, dedupSeen, nextId,
                   nextHandle, expiries, sendLog, popLog, done, notifier>>

\* Variant: the call that raised is made again.
Rejected_retry(w, s) == UNCHANGED <<task, timers>>
\* The invocation in slot s ends by an error nobody catches: its promise is
\* rejected and the setTimeout at the end of doExecutionWork is not reached.
Rejected(w, s) ==
    /\ task' = [task EXCEPT ![w][s] = IdleTask]
    /\ UNCHANGED timers

\* The invocation in slot s reaches setTimeout(doExecutionWork, 500).
Rescheduled(w, s) ==
    /\ task' = [task EXCEPT ![w][s] = IdleTask]
    /\ timers' = [timers EXCEPT ![w] = Append(@, PollIntervalMs)]

PopRecord(w, e, result) ==
    [w |-> w, url |-> WorkerUrl, id |-> e.id, handle |-> e.handle,
     body |-> e.body, result |-> result]

NoEntry == [id |-> 0, url |-> "", body |-> <<>>, handle |-> 0]

\* What the try block of pop evaluates to for the received Body; kind
\* "error" is the SyntaxError of JSON.parse.
pop_try(body) == IF body # <<>> THEN JSON_parse(body) ELSE Undefined

\* Variant: a finally block that never calls deleteMessage.
pop_finally_skipDelete(handle) == FALSE
\* 'if (queued_message.ReceiptHandle)' in the finally block of pop: when it
\* holds, pop awaits sqs.deleteMessage before it is left.
pop_finally_hasReceiptHandle(handle) == handle # 0

\* Variant: every message object is processed.
doExecutionWork_processes_anyObject(msg) == msg.kind = "object"
\* doExecutionWork: 'if (msg && msg.guid)'
doExecutionWork_processes(msg) == msg.kind = "object" /\ msg.guid # ""

\* pop is left with the outcome ret of its try block (after its finally
\* block), and doExecutionWork goes on from 'const msg = await queue.pop()'.
pop_completes(w, s, e, ret) ==
    IF ret.kind = "error"
    THEN /\ popLog' = popLog \cup {PopRecord(w, e, "raised-SyntaxError")}
         /\ Rejected(w, s)
    ELSE /\ popLog' = popLog \cup
                {PopRecord(w, e, IF ret.kind = "undefined" THEN "returned-undefined"
                                 ELSE "returned-value")}
         /\ IF doExecutionWork_processes(ret)
            THEN /\ task' = [task EXCEPT ![w][s] =
                        [pc |-> "download", id |-> e.id, body |-> e.body,
                         handle |-> e.handle, msg |-> ret, dir |-> 0]]
                 /\ UNCHANGED timers
            ELSE Rescheduled(w, s)

\* sqs.receiveMessage raises.
pop_receiveFails(w, s) ==
    /\ task[w][s].pc = "pop_receive"
    /\ popLog' = popLog \cup {PopRecord(w, NoEntry, "raised-receive-error")}
    /\ Rejected(w, s)
    /\ UNCHANGED <<tmp, le, sn, dp, ac>>
    /\ UNCHANGED <<queue_url, requester, wstate, queue, dedupSeen, nextId,
                   nextHandle, expiries, sendLog, done, notifier>>

\* sqs.receiveMessage returns; pop runs up to 'await this.sqs.deleteMessage'
\* or, without it, to its end.
pop_receive(w, s) ==
    /\ task[w][s].pc = "pop_receive"
    /\ LET got == Broker_receivable(WorkerUrl, MaxNumberOfMessages)
       IN  /\ queue' = Broker_inFlight(got, nextHandle)
           /\ nextHandle' = IF got = <<>> THEN nextHandle ELSE nextHandle + 1
           /\ IF Len(got) = 1
              THEN LET e == [got[1] EXCEPT !.handle = nextHandle]
                   IN  IF pop_finally_hasReceiptHandle(e.handle)
                       THEN /\ task' = [task EXCEPT ![w][s] =
                                   [pc |-> "pop_delete", id |-> e.id, body |-> e.body,
                                    handle |-> e.handle, msg |-> pop_try(e.body),
                                    dir |-> 0]]
                            /\ UNCHANGED <<timers, popLog>>
                       ELSE pop_completes(w, s, e, pop_try(e.body))
              ELSE pop_completes(w, s, NoEntry, Undefined)
    /\ UNCHANGED <<tmp, le, sn, dp, ac>>
    /\ UNCHANGED <<queue_url, requester, wstate, dedupSeen, nextId, expiries,
                   sendLog, done, notifier>>

TaskEntry(t) == [id |-> t.id, url |-> WorkerUrl, body |-> t.body, handle |-> t.handle]

\* Variant: a finally block that catches the error of deleteMessage and
\* lets pop end with the outcome of its try block.
pop_finally_swallows(ret) == ret
\* What pop ends with when 'await this.sqs.deleteMessage' in its finally
\* block rejects, ret being the outcome of its try block: nothing catches
\* the error, so it replaces that outcome and pop rejects with it.
pop_finally_rejected(ret) == NoMessage("delete-error")

\* sqs.deleteMessage raises, for an expired receipt handle or for any other
\* reason: the error replaces the outcome of the try block.
pop_deleteFails(w, s) ==
    /\ task[w][s].pc = "pop_delete"
    /\ LET ret == pop_finally_rejected(task[w][s].msg)
       IN  IF ret.kind = "delete-error"
           THEN /\ popLog' = popLog \cup {PopRecord(w, TaskEntry(task[w][s]),
                                                     "raised-delete-error")}
                /\ Rejected(w, s)
           ELSE pop_completes(w, s, TaskEntry(task[w][s]), ret)
    /\ UNCHANGED <<tmp, le, sn, dp, ac>>
    /\ UNCHANGED <<queue_url, requester, wstate, queue, dedupSeen, nextId,
                   nextHandle, expiries, sendLog, done, notifier>>

\* sqs.deleteMessage returns; pop ends with the outcome of its try block.
pop_delete(w, s) ==
    /\ task[w][s].pc = "pop_delete"
    /\ Broker_deleteMessage_accepts(WorkerUrl, task[w][s].handle)
    /\ queue' = Broker_deleteMessage(WorkerUrl, task[w][s].handle)
    /\ pop_completes(w, s, TaskEntry(task[w][s]), task[w][s].msg)
    /\ UNCHANGED <<tmp, le, sn, dp, ac>>
    /\ UNCHANGED <<queue_url, requester, wstate, dedupSeen, nextId, nextHandle,
                   expiries, sendLog, done, notifier>>

(* --------------------------- one request ------------------------------- *)

DoneRecord(w, t, ended) ==
    [w |-> w, id |-> t.id, handle |-> t.handle, guid |-> t.msg.guid,
     ended |-> ended, dir |-> t.dir]

\* The awaited calls of loadPackageWithExecutable, in the order of the code:
\* executableCache.get and fs.writeFile in executableGet, then
\* packager.unpack and fs.readFile.
LoadSteps == <<"executableCache.get", "fs.writeFile", "packager.unpack", "fs.readFile">>

\* LocalExecutionEnvironment.loadPackageWithExecutable(hash, dirPath): the
\* ways its awaited call number i can end.  "next" goes on to the call after
\* it, "loaded" returns the build result; "miss" (executableGet returned
\* null) and "unusable" (the call raised, for a hash in the cache or not, or
\* JSON.parse raised on the file read) are errors thrown from its catch
\* block.
loadPackageWithExecutable(hash, i) ==
    IF i = 1 /\ ~CacheHit(hash) THEN {"miss", "unusable"}
    ELSE IF i < Len(LoadSteps) THEN {"next", "unusable"}
    ELSE {"loaded", "unusable"}

\* Variant: a directory named by the prefix alone.
temp_mkdir_prefixOnly(n) == Min(n, 1)
\* temp.mkdir({prefix, dir: os.tmpdir()}): the directory it creates, as the
\* n-th call on this host; it gives no name twice.
temp_mkdir(n) == n

\* doExecutionWork: new LocalExecutionEnvironment(...) and
\* 'await executor.downloadExecutablePackage(msg.hash)' up to the end of
\* 'await temp.mkdir(...)': the directory is made and this.dirPath set, or
\* mkdir raises and nothing is made.  A task with dir 0 has an executor
\* whose dirPath is 'not initialized'.
downloadExecutablePackage(w, s) ==
    /\ task[w][s].pc = "download"
    /\ \E ok \in BOOLEAN :
          IF ok
          THEN LET dirPath == temp_mkdir(tmp.next)
               IN  /\ tmp' = [next |-> tmp.next + 1, dirs |-> tmp.dirs \cup {dirPath}]
                   /\ task' = [task EXCEPT ![w][s].dir = dirPath,
                                           ![w][s].pc = LoadSteps[1]]
                   /\ UNCHANGED <<timers, done>>
          ELSE /\ done' = done \cup {DoneRecord(w, task[w][s], "download-mkdir-raised")}
               /\ Rejected(w, s)
               /\ UNCHANGED tmp
    /\ UNCHANGED <<le, sn, dp, ac>>
    /\ UNCHANGED <<queue_url, requester, wstate, queue, dedupSeen, nextId,
                   nextHandle, expiries, sendLog, popLog, notifier>>

\* One awaited call of loadPackageWithExecutable settles; after the last,
\* downloadExecutablePackage sets this.buildResult and returns.
loadPackageWithExecutable_settles(w, s) ==
    /\ \E i \in DOMAIN LoadSteps :
          /\ task[w][s].pc = LoadSteps[i]
          /\ \E o \in loadPackageWithExecutable(task[w][s].msg.hash, i) :
                IF o \in {"next", "loaded"}
                THEN /\ task' = [task EXCEPT ![w][s].pc =
                                    IF o = "next" THEN LoadSteps[i + 1] ELSE "execute"]
                     /\ UNCHANGED <<timers, done>>
                ELSE /\ done' = done \cup {DoneRecord(w, task[w][s], "download-" \o o)}
                     /\ Rejected(w, s)
    /\ UNCHANGED <<tmp, le, sn, dp, ac>>
    /\ UNCHANGED <<queue_url, requester, wstate, queue, dedupSeen, nextId,
                   nextHandle, expiries, sendLog, popLog, notifier>>

\* doExecutionWork: 'const result = await executor.execute(msg.params)';
\* exec.sandbox resolves with a result or rejects.  Without params the
\* read of params.args raises a TypeError before the sandbox is called.
execute(w, s) ==
    /\ task[w][s].pc = "execute"
    /\ \E ok \in BOOLEAN :
          IF ok /\ task[w][s].msg.hasParams
          THEN /\ task' = [task EXCEPT ![w][s].pc = "send"]
               /\ UNCHANGED <<timers, done>>
          ELSE /\ done' = done \cup {DoneRecord(w, task[w][s], "execute-raised")}
               /\ Rejected(w, s)
    /\ UNCHANGED <<tmp, le, sn, dp, ac>>
    /\ UNCHANGED <<queue_url, requester, wstate, queue, dedupSeen, nextId,
                   nextHandle, expiries, sendLog, popLog, notifier>>

\* Variant: the hash of the message is given to send.
send_guid_hash(msg) == msg.hash
\* doExecutionWork: the first argument of sender.send, msg.guid.
send_guid(msg) == msg.guid

\* doExecutionWork: new EventsWsSender(...) and
\* 'await sender.send(msg.guid, result)'.
send(w, s) ==
    /\ task[w][s].pc = "send"
    /\ \E ok \in BOOLEAN :
          IF ok
          THEN /\ notifier' = Append(notifier,
                      [op |-> "send", w |-> w, id |-> task[w][s].id,
                       handle |-> task[w][s].handle,
                       guid |-> send_guid(task[w][s].msg), value |-> "result"])
               /\ task' = [task EXCEPT ![w][s].pc = "close"]
               /\ UNCHANGED <<timers, done>>
          ELSE /\ done' = done \cup {DoneRecord(w, task[w][s], "send-raised")}
               /\ Rejected(w, s)
               /\ UNCHANGED notifier
    /\ UNCHANGED <<tmp, le, sn, dp, ac>>
    /\ UNCHANGED <<queue_url, requester, wstate, queue, dedupSeen, nextId,
                   nextHandle, expiries, sendLog, popLog>>

\* doExecutionWork: 'await sender.close()', then
\* setTimeout(doExecutionWork, 500).
close(w, s) ==
    /\ task[w][s].pc = "close"
    /\ \E ok \in BOOLEAN :
          IF ok
          THEN /\ notifier' = Append(notifier,
                      [op |-> "close", w |-> w, id |-> task[w][s].id,
                       handle |-> task[w][s].handle,
                       guid |-> task[w][s].msg.guid, value |-> "none"])
               /\ done' = done \cup {DoneRecord(w, task[w][s], "completed")}
               /\ Rescheduled(w, s)
          ELSE /\ done' = done \cup {DoneRecord(w, task[w][s], "close-raised")}
               /\ Rejected(w, s)
               /\ UNCHANGED notifier
    /\ UNCHANGED <<tmp, le, sn, dp, ac>>
    /\ UNCHANGED <<queue_url, requester, wstate, queue, dedupSeen, nextId,
                   nextHandle, expiries, sendLog, popLog>>

(* --------------------------- specification ----------------------------- *)

Next ==
    \/ ConstructRequester
    \/ \E t \in PushTriples, m \in PushMessages : push(t, m)
    \/ \E b \in ForeignBodies : ForeignSend(b)
    \/ VisibilityTimeout
    \/ \E w \in Workers : startExecutionWorkerThread(w)
    \/ \E w \in Workers, s \in Slots : TimerFire(w, s)
    \/ \E w \in Workers, s \in Slots : pop_receiveFails(w, s)
    \/ \E w \in Workers, s \in Slots : pop_receive(w, s)
    \/ \E w \in Workers, s \in Slots : pop_deleteFails(w, s)
    \/ \E w \in Workers, s \in Slots : pop_delete(w, s)
    \/ \E w \in Workers, s \in Slots : downloadExecutablePackage(w, s)
    \/ \E w \in Workers, s \in Slots : loadPackageWithExecutable_settles(w, s)
    \/ \E w \in Workers, s \in Slots : execute(w, s)
    \/ \E w \in Workers, s \in Slots : send(w, s)
    \/ \E w \in Workers, s \in Slots : close(w, s)

Spec == Init /\ [][Next]_vars

(* ---------------- LocalExecutionEnvironment: one request --------------- *)

workerVars ==
    <<queue_url, requester, wstate, timers, task, queue, dedupSeen, nextId,
      nextHandle, expiries, sendLog, popLog, done, notifier, tmp>>

\* new LocalExecutionEnvironment(environment), on a host for which
\* HeaptrackWrapper.isSupported(environment) is isSupported.
LocalExecutionEnvironment_constructor(isSupported) ==
    /\ le.pc = "none"
    /\ le' = [NoEnvironment EXCEPT !.pc = "constructed",
                                   !.supported = isSupported,
                                   !.useSanitizerEnvHints = TRUE,
                                   !.timeoutMs = BinaryExecTimeoutMs,
                                   !.maxExecOutputSize = MaxExecutableOutputSize,
                                   !.dirPath = "not initialized"]
    /\ UNCHANGED <<workerVars, sn, dp, ac>>

\* LocalExecutionEnvironment.downloadExecutablePackage(hash), for a hash the
\* cache and the package hold pkg for, up to 'await temp.mkdir'.
Env_downloadExecutablePackage(pkg) ==
    /\ le.pc = "constructed"
    /\ le' = [le EXCEPT !.pc = "downloading", !.op = "downloadExecutablePackage",
                        !.pkg = pkg, !.steps = <<"temp.mkdir">>]
    /\ UNCHANGED <<workerVars, sn, dp, ac>>

\* temp.mkdir has resolved: this.dirPath is set and loadPackageWithExecutable
\* runs up to 'await this.environment.executableCache.get(hash)'.
Env_temp_mkdir_resolves ==
    /\ le.pc = "downloading"
    /\ le.steps = <<"temp.mkdir">>
    /\ le' = [le EXCEPT !.dirPath = TempDir,
                        !.steps = Append(@, "executableCache.get")]
    /\ UNCHANGED <<workerVars, sn, dp, ac>>

\* temp.mkdir has rejected: downloadExecutablePackage rejects with that
\* error, this.dirPath is as the constructor left it.
Env_temp_mkdir_rejects ==
    /\ le.pc = "downloading"
    /\ le.steps = <<"temp.mkdir">>
    /\ le' = [le EXCEPT !.pc = "rejected", !.err = ENOSPC(TempDir)]
    /\ UNCHANGED <<workerVars, sn, dp, ac>>

\* The call loadPackageWithExecutable awaits (executableCache.get,
\* fs.writeFile, packager.unpack or fs.readFile) has settled: the next call
\* is made, or the function ends, with the build result or with the error
\* of its catch block.
Env_loadPackageWithExecutable_settles ==
    /\ le.pc = "downloading"
    /\ Len(le.steps) > 1
    /\ LET awaited == loadPackageWithExecutable_awaits(le.pkg)
           made == Len(le.steps) - 1
           r == loadPackageWithExecutable_ends(le.pkg, le.dirPath)
           calls == <<"temp.mkdir">> \o loadPackageWithExecutable_calls(le.pkg)
       IN  le' = IF made < Len(awaited)
                 THEN [le EXCEPT !.steps = Append(@, awaited[made + 1])]
                 ELSE IF r.threw
                 THEN [le EXCEPT !.pc = "rejected", !.err = r.err, !.steps = calls]
                 ELSE [le EXCEPT !.pc = "ready", !.buildResult = r.value,
                                 !.steps = calls]
    /\ UNCHANGED <<workerVars, sn, dp, ac>>

\* LocalExecutionEnvironment.execute(params): 'assert(this.buildResult)',
\* which throws while no download has set the build result, then the call of
\* exec.sandbox up to its await.
Env_execute(params) ==
    /\ le.pc \in {"constructed", "downloading", "rejected", "ready"}
    /\ le.op \in {"none", "downloadExecutablePackage"}
    /\ le' = IF le.buildResult = NoBuildResult
             THEN [le EXCEPT !.assertFailed = TRUE]
             ELSE [le EXCEPT !.pc = "launched", !.op = "execute",
                             !.given = params,
                             !.params = getDefaultExecOptions_params(params),
                             !.launch = execute_launch(le.buildResult, params),
                             !.steps = Append(le.steps, "exec.sandbox")]
    /\ UNCHANGED <<workerVars, sn, dp, ac>>

\* LocalExecutionEnvironment.execBinary(executable, executeParameters,
\* homeDir): its try block up to the await in execBinaryMaybeWrapped, or its
\* catch block when the try block throws.
Env_execBinary(executable, executeParameters, homeDir) ==
    /\ le.pc = "constructed"
    /\ le' = IF executeParameters.ldPathDefined
             THEN [le EXCEPT !.pc = "launched", !.op = "execBinary",
                      !.given = executeParameters,
                      !.params = executeParameters,
                      !.launch = execBinaryMaybeWrapped_launch(
                                     executable, executeParameters.args,
                                     execBinary_execOptions(le, executeParameters, homeDir),
                                     executeParameters, le.supported)]
             ELSE [le EXCEPT !.pc = "returned", !.op = "execBinary",
                      !.given = executeParameters,
                      !.params = executeParameters,
                      !.out = execBinary_catch(TypeError)]
    /\ UNCHANGED <<workerVars, sn, dp, ac>>

\* exec.sandbox or wrapper.exec resolves with raw: execute returns it as it
\* is, execBinaryMaybeWrapped returns it processed.
Env_launchResolves(raw) ==
    /\ le.pc = "launched"
    /\ raw \in SandboxResults(le.launch.options)
    /\ le' = [le EXCEPT !.pc = "returned",
                 !.out = IF le.op = "execute" THEN raw
                         ELSE [processUserExecutableExecutionResult(
                                   raw, execBinaryMaybeWrapped_parseOptions(le.launch.via))
                                 EXCEPT !.kind = "result"]]
    /\ UNCHANGED <<workerVars, sn, dp, ac>>

\* exec.sandbox or wrapper.exec rejects with err: the promise of execute, or
\* the promise of execBinaryMaybeWrapped that execBinary has returned
\* without awaiting it, rejects with err.
Env_launchRejects(err) ==
    /\ le.pc = "launched"
    /\ le' = [le EXCEPT !.pc = "rejected", !.err = err]
    /\ UNCHANGED <<workerVars, sn, dp, ac>>

NextEnv ==
    \/ \E isSupported \in BOOLEAN : LocalExecutionEnvironment_constructor(isSupported)
    \/ \E pkg \in Packages : Env_downloadExecutablePackage(pkg)
    \/ Env_temp_mkdir_resolves
    \/ Env_temp_mkdir_rejects
    \/ Env_loadPackageWithExecutable_settles
    \/ \E params \in ExecutionParamsInputs : Env_execute(params)
    \/ \E executeParameters \in ExecutableExecutionOptionsInputs :
          Env_execBinary("/app/a.out", executeParameters, "/app")
    \/ \E raw \in RawResults : Env_launchResolves(raw)
    \/ \E err \in SandboxErrors : Env_launchRejects(err)

SpecEnv == Init /\ [][NextEnv]_vars

(* --------------------------- StatsNoter: steps ------------------------- *)

envVars == <<workerVars, le, dp, ac>>

\* new StatsNoter(bucket, path, region, flushMs).
StatsNoter_constructor(flushMs) ==
    /\ sn.pc = "none"
    /\ sn' = [sn EXCEPT !.pc = "ready", !.statsQueue = <<>>,
                        !.flushAfterMs = StatsNoter_flushAfterMs(flushMs),
                        !.flushJob = 0, !.last = "constructor"]
    /\ UNCHANGED envVars

\* noteCompilation(request), dt milliseconds after the last call.
noteCompilation(request, dt) ==
    /\ sn.pc = "ready"
    /\ Len(sn.noted) < MaxNotes
    /\ LET time == sn.now + dt
           rec == makeSafe(time, request)
           sets == noteCompilation_setsTimer(sn.flushJob)
       IN  sn' = [sn EXCEPT
                    !.now = time,
                    !.statsQueue = Append(@, rec),
                    !.noted = Append(@, rec),
                    !.flushJob = IF sets THEN sn.nextTimer ELSE @,
                    !.pending = IF sets THEN @ \cup {sn.nextTimer} ELSE @,
                    !.nextTimer = IF sets THEN @ + 1 ELSE @,
                    !.last = "noteCompilation"]
    /\ UNCHANGED envVars

\* The timer h set by noteCompilation fires: flush().
flush(h) ==
    /\ sn.pc = "ready"
    /\ h \in sn.pending
    /\ LET toFlush == sn.statsQueue
       IN  sn' = [sn EXCEPT
                    !.statsQueue = flush_statsQueue(toFlush),
                    !.puts = Append(@, [lines |-> toFlush, state |-> "pending"]),
                    !.pending = (@ \ {h}) \ {sn.flushJob},
                    !.flushJob = 0,
                    !.last = "flush"]
    /\ UNCHANGED envVars

\* The promise of the i-th put resolves: '.then(() => {})'.
put_resolves(i) ==
    /\ i \in DOMAIN sn.puts
    /\ sn.puts[i].state = "pending"
    /\ sn' = [sn EXCEPT !.puts[i].state = "resolved", !.last = "put"]
    /\ UNCHANGED envVars

\* The promise of the i-th put rejects: '.catch(e => logger.warn(...))'.
put_rejects(i) ==
    /\ i \in DOMAIN sn.puts
    /\ sn.puts[i].state = "pending"
    /\ sn' = [sn EXCEPT !.puts[i].state = "rejected", !.warned = @ \cup {i},
                        !.last = "put"]
    /\ UNCHANGED envVars

NextStats ==
    \/ \E flushMs \in FlushMsInputs : StatsNoter_constructor(flushMs)
    \/ \E request \in ParsedRequests, dt \in {0, 1} : noteCompilation(request, dt)
    \/ \E h \in 1..MaxNotes : flush(h)
    \/ \E i \in 1..MaxNotes : put_resolves(i)
    \/ \E i \in 1..MaxNotes : put_rejects(i)

SpecStats == Init /\ [][NextStats]_vars

(* ---------------------------- Diff pane: steps ------------------------- *)

\* The number of events a pane handles after its construction.
MaxEvents == 3

notDiffVars == <<workerVars, le, sn, ac>>

\* onDiffSelect(id): requestResendResult; updateTitle and updateState are
\* the base pane's and touch no field of the Diff pane.
onDiffSelect(d, id) ==
    [d EXCEPT !.emitted = @ \o requestResendResult(id)]

\* The onChange of the picker of a side (lhs or rhs) with a value.
picker_onChange(d, side, value) ==
    IF value \notin DOMAIN d.compilers THEN d
    ELSE LET compiler == d.compilers[value]
         IN  onDiffSelect([d EXCEPT ![side].compiler = compiler,
                                    ![side].id = compiler.id],
                          compiler.id)

\* updateCompilersFor(selectize, id) for the picker of a side; fires tells
\* whether setValue calls the onChange of the picker.
updateCompilersFor(d, side, fires) ==
    LET id == d[side].id
        key == PropertyKey(id)
        opts == [d EXCEPT !.selectize[side].options = DOMAIN d.compilers]
    IN  IF key \in DOMAIN d.compilers
        THEN LET set == [opts EXCEPT !.selectize[side].value = key]
             IN  IF fires THEN picker_onChange(set, side, key) ELSE set
        ELSE opts

\* updateCompilers().
updateCompilers(d, firesLhs, firesRhs) ==
    LET l == updateCompilersFor(d, "lhs", firesLhs)
        r == updateCompilersFor(l, "rhs", firesRhs)
    IN  [r EXCEPT !.selectize.lhsdifftype = r.lhs.difftype,
                  !.selectize.rhsdifftype = r.rhs.difftype]

\* What every handler notes of its call.
Called(d, op, id, compiler, result) ==
    [d EXCEPT !.calls = @ + 1,
              !.last = [op |-> op, id |-> id, compiler |-> compiler,
                        result |-> result]]

\* A handler starts with nothing emitted.
Handling == [dp EXCEPT !.emitted = <<>>]

\* new Diff(hub, container, state).
Diff_constructor(state) ==
    /\ dp.pc = "none"
    /\ LET lhsdifftype == IF state.lhsdifftype = "" THEN "DiffType_ASM"
                          ELSE state.lhsdifftype
           rhsdifftype == IF state.rhsdifftype = "" THEN "DiffType_ASM"
                          ELSE state.rhsdifftype
           d0 == [dp EXCEPT !.pc = "ready", !.compilers = <<>>,
                            !.lhs = DiffStateObject(state.lhs, lhsdifftype),
                            !.rhs = DiffStateObject(state.rhs, rhsdifftype)]
           d1 == [d0 EXCEPT !.emitted = requestResendResult(d0.lhs.id)
                                \o requestResendResult(d0.rhs.id)
                                \o << [event |-> "findCompilers", id |-> NoId],
                                      [event |-> "findExecutors", id |-> NoId],
                                      [event |-> "requestTheme", id |-> NoId],
                                      [event |-> "requestSettings", id |-> NoId] >>]
       IN  dp' = [updateCompilers(d1, FALSE, FALSE) EXCEPT
                     !.last = [op |-> "constructor", id |-> NoId,
                               compiler |-> Null, result |-> Null]]
    /\ UNCHANGED notDiffVars

\* onCompileResult(id, compiler, result) on a pane d.
Diff_onCompileResult(d, id, compiler, result) ==
    [d EXCEPT !.lhs = update(d.lhs, id, compiler, result),
              !.rhs = update(d.rhs, id, compiler, result)]

\* The event 'compileResult'.
onCompileResult(id, compiler, result) ==
    /\ dp.pc = "ready"
    /\ dp.calls < MaxEvents
    /\ dp' = Called(Diff_onCompileResult(Handling, id, compiler, result),
                    "onCompileResult", id, compiler, result)
    /\ UNCHANGED notDiffVars

\* The event 'executeResult'.
onExecuteResult(id, compiler, result) ==
    /\ dp.pc = "ready"
    /\ dp.calls < MaxEvents
    /\ LET compileResult == onExecuteResult_compileResult(result)
       IN  dp' = Called(Diff_onCompileResult(Handling, ExecId(id), compiler,
                                             compileResult),
                        "onExecuteResult", Num(id), compiler, compileResult)
    /\ UNCHANGED notDiffVars

\* onCompiler(id, compiler, options, editorId, treeId) on a pane d.
Diff_onCompiler(d, id, compiler, options, editorId, treeId, firesLhs, firesRhs) ==
    IF compiler = Null THEN d
    ELSE LET entry == CompilerEntry(id, compiler, options, editorId, treeId)
             key == PropertyKey(id)
             d0 == [d EXCEPT !.compilers =
                       [k \in DOMAIN d.compilers \cup {key} |->
                           IF k = key THEN entry ELSE d.compilers[k]]]
             d1 == IF onCompiler_takes(d0.lhs)
                   THEN onDiffSelect([d0 EXCEPT !.lhs.compiler = entry,
                                                !.lhs.id = id], id)
                   ELSE d0
             d2 == IF onCompiler_takes(d1.rhs)
                   THEN onDiffSelect([d1 EXCEPT !.rhs.compiler = entry,
                                                !.rhs.id = id], id)
                   ELSE d1
         IN  updateCompilers(d2, firesLhs, firesRhs)

\* The event 'compiler'.
onCompiler(id, compiler, options, firesLhs, firesRhs) ==
    /\ dp.pc = "ready"
    /\ dp.calls < MaxEvents
    /\ dp' = Called(Diff_onCompiler(Handling, id, compiler, options, 1, 0,
                                    firesLhs, firesRhs),
                    "onCompiler", id, compiler, Null)
    /\ UNCHANGED notDiffVars

\* The event 'executor'.
onExecutor(id, compiler, options, firesLhs, firesRhs) ==
    /\ dp.pc = "ready"
    /\ dp.calls < MaxEvents
    /\ dp' = Called(Diff_onCompiler(Handling, ExecId(id), compiler, options, 1, 0,
                                    firesLhs, firesRhs),
                    "onExecutor", Num(id), compiler, Null)
    /\ UNCHANGED notDiffVars

\* onCompilerClose(id) on a pane d.
Diff_onCompilerClose(d, id, firesLhs, firesRhs) ==
    updateCompilers([d EXCEPT !.compilers = onCompilerClose_delete(@, id)],
                    firesLhs, firesRhs)

\* The event 'compilerClose'.
onCompilerClose(id, firesLhs, firesRhs) ==
    /\ dp.pc = "ready"
    /\ dp.calls < MaxEvents
    /\ dp' = Called(Diff_onCompilerClose(Handling, id, firesLhs, firesRhs),
                    "onCompilerClose", id, Null, Null)
    /\ UNCHANGED notDiffVars

\* The event 'executorClose'.
onExecutorClose(id, firesLhs, firesRhs) ==
    /\ dp.pc = "ready"
    /\ dp.calls < MaxEvents
    /\ dp' = Called(Diff_onCompilerClose(Handling, ExecId(id), firesLhs, firesRhs),
                    "onExecutorClose", Num(id), Null, Null)
    /\ UNCHANGED notDiffVars

\* The user picks the compiler with a value in the picker of a side.
diffPicker_onChange(side, value) ==
    /\ dp.pc = "ready"
    /\ dp.calls < MaxEvents
    /\ value \in dp.selectize[side].options
    /\ dp' = Called([picker_onChange(Handling, side, value) EXCEPT
                        !.selectize[side].value = value],
                    "onChange", NoId, Null, Null)
    /\ UNCHANGED notDiffVars

\* The user picks a difftype in the difftype picker of a side.
difftypePicker_onChange(side, value) ==
    /\ dp.pc = "ready"
    /\ dp.calls < MaxEvents
    /\ LET d == [Handling EXCEPT ![side].difftype = value]
       IN  dp' = Called([d EXCEPT ![side] = refresh(d[side]),
                                  !.selectize[side \o "difftype"] = value],
                        "difftype", NoId, Null, Null)
    /\ UNCHANGED notDiffVars

Sides == {"lhs", "rhs"}

PaneIds == { Num(n) : n \in CompilerIds } \cup { ExecId(n) : n \in ExecutorIds }

NextDiff ==
    \/ \E state \in DiffStates : Diff_constructor(state)
    \/ \E id \in PaneIds, compiler \in CompilerInfos \ {Null},
          result \in CompileResults : onCompileResult(id, compiler, result)
    \/ \E id \in ExecutorIds, compiler \in CompilerInfos \ {Null},
          result \in ExecuteResults : onExecuteResult(id, compiler, result)
    \/ \E id \in CompilerIds, compiler \in CompilerInfos,
          options \in CompilerOptionInputs, firesLhs \in BOOLEAN,
          firesRhs \in BOOLEAN :
          onCompiler(Num(id), compiler, options, firesLhs, firesRhs)
    \/ \E id \in ExecutorIds, compiler \in CompilerInfos,
          options \in CompilerOptionInputs, firesLhs \in BOOLEAN,
          firesRhs \in BOOLEAN :
          onExecutor(id, compiler, options, firesLhs, firesRhs)
    \/ \E id \in CompilerIds, firesLhs \in BOOLEAN, firesRhs \in BOOLEAN :
          onCompilerClose(Num(id), firesLhs, firesRhs)
    \/ \E id \in ExecutorIds, firesLhs \in BOOLEAN, firesRhs \in BOOLEAN :
          onExecutorClose(id, firesLhs, firesRhs)
    \/ \E side \in Sides, value \in { PropertyKey(id) : id \in PaneIds } :
          diffPicker_onChange(side, value)
    \/ \E side \in Sides, value \in DiffTypePicks :
          difftypePicker_onChange(side, value)

SpecDiff == Init /\ [][NextDiff]_vars

(* ------------------------- AssemblyCompiler: steps --------------------- *)

notAssemblyVars == <<workerVars, le, sn, dp>>

\* doBuildstepAndAddToResult(fullResult, name, command, args, execOptions):
\* the process it starts.
doBuildstep(a, name, args, customCwd) ==
    [a EXCEPT !.execs = Append(@, [step |-> name, args |-> args,
                                    customCwd |-> customCwd])]

\* doBuildstepAndAddToResult: the step of the finished process joins the
\* build steps of the result.
addToResult(a, name, stepResult) ==
    [a EXCEPT !.fullResult.buildsteps =
                 Append(@, [code |-> stepResult.code, step |-> name,
                            stdout |-> stepResult.stdout,
                            stderr |-> stepResult.stderr])]

\* buildExecutableInFolder: 'fullResult.stderr.concat(ldResult.stderr)' and
\* the return.
buildExecutableInFolder_return(a, ldResult) ==
    [a EXCEPT !.fullResult.stderr = @ \o ldResult.stderr, !.pc = "returned"]

\* buildExecutableInFolder(key, dirPath) up to 'await this.writeAllFiles':
\* setupBuildEnvironment has been started and is not awaited yet.
buildExecutableInFolder(compileFilename, libOpts) ==
    /\ ac.pc = "none"
    /\ ac' = [ac EXCEPT !.pc = "writeAllFiles",
                        !.compileFilename = compileFilename,
                        !.libOpts = libOpts]
    /\ UNCHANGED notAssemblyVars

\* writeAllFiles has resolved: the filenames; 'await buildEnvironment'.
writeAllFiles_resolves ==
    /\ ac.pc = "writeAllFiles"
    /\ ac' = [ac EXCEPT !.pc = "buildEnvironment",
                        !.inputFilename = path_join(BuildDirPath, ac.compileFilename),
                        !.outputFilename = getExecutableFilename(BuildDirPath)]
    /\ UNCHANGED notAssemblyVars

\* setupBuildEnvironment has resolved: 'await this.buildExecutable'.
buildEnvironment_resolves ==
    /\ ac.pc = "buildEnvironment"
    /\ ac' = [ac EXCEPT !.pc = "buildExecutable"]
    /\ UNCHANGED notAssemblyVars

\* The assembler has run: fullResult and the object file; when that is not
\* the input file, 'await fileExists(objectFilename)'.
buildExecutable_resolves(result, files) ==
    /\ ac.pc = "buildExecutable"
    /\ files \in DirectoryListings(ac.compileFilename)
    /\ LET objectFilename == getOutputFilename(BuildDirPath, files, ac.compileFilename)
           a == [ac EXCEPT !.files = files,
                           !.compiled = result,
                           !.fullResult = [code |-> result.code,
                                           stdout |-> result.stdout,
                                           stderr |-> result.stderr,
                                           buildsteps |-> <<>>,
                                           executableFilename |-> ac.outputFilename],
                           !.objectFilename = objectFilename]
       IN  IF objectFilename # ac.inputFilename
           THEN ac' = [a EXCEPT !.pc = "fileExists"]
           ELSE ac' = [a EXCEPT !.pc = "returned"]
    /\ UNCHANGED notAssemblyVars

\* fileExists has answered: the file may have gone, or come, since the
\* folder was listed.  When it is there, readelf is started.
fileExists_resolves(exists) ==
    /\ ac.pc = "fileExists"
    /\ LET a == [ac EXCEPT !.exists = exists]
       IN  IF exists
           THEN ac' = [doBuildstep(a, "readelf", << <<"-", "h">>, a.objectFilename >>,
                                   path_dirname(a.objectFilename))
                          EXCEPT !.pc = "readelf"]
           ELSE ac' = [a EXCEPT !.pc = "returned"]
    /\ UNCHANGED notAssemblyVars

\* readelf has run: getArchitecture, then runLinker.
readelf_resolves(stdout) ==
    /\ ac.pc = "readelf"
    /\ LET stepResult == [code |-> 0, stdout |-> stdout, stderr |-> <<>>]
           a == addToResult(ac, "readelf", stepResult)
           inputArch == getArchitecture(stdout)
           b == [a EXCEPT !.inputArch = inputArch]
       IN  IF runLinker_links(inputArch)
           THEN ac' = [doBuildstep(b, "ld",
                                   runLinker_options(inputArch, b.objectFilename,
                                                     b.outputFilename, b.libOpts),
                                   path_dirname(b.objectFilename))
                          EXCEPT !.pc = "ld"]
           ELSE ac' = buildExecutableInFolder_return(
                         [b EXCEPT !.fullResult.buildsteps =
                                       Append(@, runLinker_invalid)],
                         runLinker_invalid)
    /\ UNCHANGED notAssemblyVars

\* The linker has run.
ld_resolves(ldResult) ==
    /\ ac.pc = "ld"
    /\ ac' = buildExecutableInFolder_return(addToResult(ac, "ld", ldResult), ldResult)
    /\ UNCHANGED notAssemblyVars

\* An awaited call rejects (files not written, build environment not set
\* up, a process not started) and buildExecutableInFolder rejects with it.
buildstep_rejects ==
    /\ ac.pc \in {"writeAllFiles", "buildEnvironment", "buildExecutable",
                  "fileExists", "readelf", "ld"}
    /\ ac' = [ac EXCEPT !.pc = "rejected"]
    /\ UNCHANGED notAssemblyVars

NextAssembly ==
    \/ \E compileFilename \in CompileFilenames, libOpts \in LibraryLinks :
          buildExecutableInFolder(compileFilename, libOpts)
    \/ writeAllFiles_resolves
    \/ buildEnvironment_resolves
    \/ \E result \in BuildExecutableResults,
          files \in AllDirectoryListings :
          buildExecutable_resolves(result, files)
    \/ \E exists \in BOOLEAN : fileExists_resolves(exists)
    \/ \E stdout \in ReadelfOutputs : readelf_resolves(stdout)
    \/ \E ldResult \in LinkerResults : ld_resolves(ldResult)
    \/ buildstep_rejects

SpecAssembly == Init /\ [][NextAssembly]_vars

(* ------------------------------- claims -------------------------------- *)

Busy(w) == { s \in Slots : task[w][s].pc # "idle" }

\* The worker loop of w is alive: an iteration is running or one is scheduled.
LoopAlive(w) == Len(timers[w]) + Cardinality(Busy(w)) >= 1

QueuedIds == { queue[i].id : i \in DOMAIN queue }

Downloading == {"download"} \cup { LoadSteps[i] : i \in DOMAIN LoadSteps }

Processing == Downloading \cup {"execute", "send", "close"}

\* C1: the worker loop never halts.  Once startExecutionWorkerThread has set
\* the loop up, after every iteration of doExecutionWork (no message, a
\* processed request, or an error raised by pop, downloadExecutablePackage,
\* execute, send or close) another iteration is scheduled: at every moment an
\* iteration is running or a timer is pending.
C1_WorkerLoopNeverHalts ==
    \A w \in Workers : wstate[w] = "running" => LoopAlive(w)

\* C2: a fetch failure is reported to the requester.  For every iteration
\* that ended because the fetch of a popped message with a non-empty guid
\* failed (cache miss, unusable package), a failure result was sent to the
\* notifier under that guid, and the loop of that worker goes on polling.
C2_FetchFailureReported ==
    \A d \in done :
        d.ended \in {"download-miss", "download-unusable"} =>
            /\ \E i \in DOMAIN notifier :
                  /\ notifier[i].op = "send"
                  /\ notifier[i].id = d.id
                  /\ notifier[i].guid = d.guid
                  /\ notifier[i].value = "failure"
            /\ LoopAlive(d.w)

\* C3: eventual response.  Every iteration that held a popped message with a
\* non-empty guid and has ended, whatever the outcome of fetch, unpack and
\* execution, has sent something (a result or a failure) to the notifier
\* under that guid.  The message is gone from the queue by then, so a send
\* missing at the end of the iteration never comes.
C3_EventualResponse ==
    \A d \in done :
        d.ended \in {"download-miss", "download-unusable", "execute-raised", "completed"} =>
            \E i \in DOMAIN notifier :
                /\ notifier[i].op = "send"
                /\ notifier[i].id = d.id
                /\ notifier[i].guid = d.guid

\* C4, as claimed: a popped message is deleted from the queue only after it
\* was processed successfully: while it is processed, and after processing
\* failed, it is still in the queue.
C4_AcknowledgeAfterProcessing ==
    /\ \A w \in Workers, s \in Slots :
          task[w][s].pc \in Processing => task[w][s].id \in QueuedIds
    /\ \A d \in done : d.ended # "completed" => d.id \in QueuedIds

\* The calls of pop whose deleteMessage has returned and that gave the
\* message received under handle h to doExecutionWork of worker w.
Returned(w, id, h) ==
    { p \in popLog : p.w = w /\ p.id = id /\ p.handle = h /\ p.result = "returned-value" }

\* C4, amended: pop calls deleteMessage for the message it received before
\* it returns it, so before any processing and never after it: while a
\* message is fetched, executed or notified, and once its processing has
\* ended in success or in failure, the deleteMessage of its pop has
\* returned and no message is in flight under the receipt handle of that
\* pop; nothing is kept in the queue for the sake of a failure.
C4_AcknowledgeBeforeProcessing ==
    /\ \A w \in Workers, s \in Slots :
          task[w][s].pc \in Processing =>
              /\ Returned(w, task[w][s].id, task[w][s].handle) # {}
              /\ \A i \in DOMAIN queue : queue[i].handle # task[w][s].handle
    /\ \A d \in done :
          /\ Returned(d.w, d.id, d.handle) # {}
          /\ \A i \in DOMAIN queue : queue[i].handle # d.handle

C4_Witness ==
    /\ \E w \in Workers, s \in Slots : task[w][s].pc = "execute"
    /\ \E d \in done : d.ended = "download-miss"

\* C5: poison messages.  When the body of a popped message cannot be
\* deserialized (and deleteMessage did not fail), the message is deleted,
\* pop returns undefined instead of raising, and the loop goes on.
C5_PoisonMessageSkipped ==
    \A p \in popLog :
        (p.id # 0 /\ JSON_parse(p.body).kind = "error"
            /\ p.result # "raised-delete-error") =>
            /\ p.id \notin QueuedIds
            /\ p.result = "returned-undefined"
            /\ LoopAlive(p.w)

Pushes == { i \in DOMAIN sendLog : sendLog[i].by = "push" }

\* The calls of pop that returned the message with this body to
\* doExecutionWork.
PopsOf(body) == { p \in popLog : p.body = body /\ p.result = "returned-value" }

\* C6: deduplicated delivery.  Two pushes of a byte-identical body carry the
\* same deduplication id and the same group id; pushed to the same triple
\* (within the deduplication window, which a run of this model lies in) only
\* the first is queued, and the body goes through at most one pop/process
\* cycle over all workers.
C6_DeduplicatedDelivery ==
    \A i \in Pushes, j \in Pushes :
        sendLog[i].call.MessageBody = sendLog[j].call.MessageBody =>
            /\ sendLog[i].call.MessageDeduplicationId = sendLog[j].call.MessageDeduplicationId
            /\ sendLog[i].call.MessageGroupId = sendLog[j].call.MessageGroupId
            /\ (i < j /\ sendLog[i].triple = sendLog[j].triple) =>
                  /\ sendLog[j].id = 0
                  /\ Cardinality(PopsOf(sendLog[i].call.MessageBody)) <= 1
                  /\ Cardinality({ d \in done : d.id = sendLog[i].id }) <= 1

\* C6 witness: the same body was pushed twice to the same triple and the
\* one message queued has been popped and processed to the end.
C6_Witness ==
    \E i \in Pushes, j \in Pushes :
        /\ i < j
        /\ sendLog[i].call = sendLog[j].call
        /\ \E d \in done : d.id = sendLog[i].id /\ d.ended = "completed"

\* C7: routing purity and separation.  getSqsQueueUrl is a function of the
\* queue base and the fields of the triple: equal triples give the same
\* queue url, triples that differ in a field give different ones, for all
\* triples and for the pushes made; a worker only ever pops messages that
\* were sent to its own triple.
C7_RoutingPurityAndSeparation ==
    /\ \A t1 \in Triples, t2 \in Triples :
          (t1 = t2) <=> (getSqsQueueUrl(queue_url, t1) = getSqsQueueUrl(queue_url, t2))
    /\ \A i \in Pushes, j \in Pushes :
          (sendLog[i].triple = sendLog[j].triple)
              <=> (sendLog[i].call.QueueUrl = sendLog[j].call.QueueUrl)
    /\ \A p \in popLog :
          p.id # 0 => \E i \in DOMAIN sendLog :
                          sendLog[i].id = p.id /\ sendLog[i].triple = DefaultTriple
    /\ \A w \in Workers, s \in Slots :
          task[w][s].id # 0 => \E i \in DOMAIN sendLog :
                          sendLog[i].id = task[w][s].id /\ sendLog[i].triple = DefaultTriple

C7_Witness ==
    /\ \E i \in Pushes, j \in Pushes :
          sendLog[i].triple # sendLog[j].triple /\ sendLog[j].triple = DefaultTriple
    /\ \E p \in popLog : p.id # 0 /\ p.result = "returned-value"
    /\ \E i \in DOMAIN queue : queue[i].url # WorkerUrl

\* C8: the configuration error is fatal at startup only.  With an empty
\* execqueue.queue_url every queue client fails in its constructor: no
\* requester gets ready, no worker sets up a polling timer or runs an
\* iteration, and no sendMessage or receiveMessage is ever issued.
C8_ConfigurationErrorAtStartup ==
    queue_url = "" =>
        /\ requester \in {"init", "fatal"}
        /\ \A w \in Workers :
              /\ wstate[w] \in {"init", "fatal"}
              /\ timers[w] = <<>>
              /\ Busy(w) = {}
        /\ Pushes = {}
        /\ popLog = {}
        /\ queue = <<>>

C8_Witness ==
    /\ queue_url = ""
    /\ requester = "fatal"
    /\ \A w \in Workers : wstate[w] = "fatal"

\* A step in which the receiveMessage call of worker w, slot s returns.
ReceiveReturns(w, s) ==
    /\ task[w][s].pc = "pop_receive"
    /\ task'[w][s].pc # "pop_receive"
    /\ PopRecord(w, NoEntry, "raised-receive-error") \notin popLog'

\* C9: pop takes at most one message per call.  The receiveMessage of a pop
\* puts at most one message in flight and removes none, no step removes more
\* than one message, and when no message is available pop returns undefined
\* at once, the queue unchanged, and the next poll is scheduled.
C9_PopTakesAtMostOne ==
    [][ /\ Len(queue') >= Len(queue) - 1
        /\ \A w \in Workers, s \in Slots :
              ReceiveReturns(w, s) =>
                  /\ Len(queue') = Len(queue)
                  /\ Cardinality({ i \in DOMAIN queue :
                        queue[i].handle = 0 /\ queue'[i].handle # 0 }) <= 1
                  /\ Broker_receivable(WorkerUrl, Len(queue)) = <<>> =>
                        /\ queue' = queue
                        /\ PopRecord(w, NoEntry, "returned-undefined") \in popLog'
                        /\ task'[w][s] = IdleTask
                        /\ timers'[w] = Append(timers[w], PollIntervalMs)
      ]_vars

C9_Witness ==
    /\ \E p \in popLog : p.id = 0 /\ p.result = "returned-undefined"
    /\ \E w \in Workers, s \in Slots : task[w][s].pc = "pop_delete"
    /\ Len(queue) = 2
    /\ \A i \in DOMAIN queue : queue[i].url = WorkerUrl

\* C10: sequential worker.  In one worker at most one invocation of
\* doExecutionWork is under way and at most one polling timer is pending,
\* and never both: the next pop is issued only after fetch, execute, send
\* and close of the current request are over.
C10_SequentialWorker ==
    \A w \in Workers : Len(timers[w]) + Cardinality(Busy(w)) <= 1

C10_Witness ==
    /\ \E w \in Workers, s \in Slots : task[w][s].pc = "close"
    /\ \E d \in done : d.ended = "completed"

\* The messages whose deleteMessage inside pop has returned.
Acknowledged ==
    { p.id : p \in { q \in popLog :
                        /\ q.id # 0
                        /\ q.result \in {"returned-value", "returned-undefined",
                                         "raised-SyntaxError"} } }

\* The invocations of doExecutionWork that hold the message id.
HoldersOf(id) ==
    { ws \in Workers \X Slots : task[ws[1]][ws[2]].pc # "idle" /\ task[ws[1]][ws[2]].id = id }

\* C11: no double processing across workers.  With several worker loops
\* polling the queue of the same triple, under every interleaving of the
\* receive and delete steps of their calls of pop, a visibility timeout
\* that runs out in between included: a message is acknowledged (deleted by
\* a pop) at most once, an acknowledged message is gone from the queue, and
\* over all workers at most one iteration ever holds it, so it is processed
\* at most once.
C11_NoDoubleProcessing ==
    \A id \in 1..(nextId - 1) :
        /\ Cardinality({ p \in popLog :
                            /\ p.id = id
                            /\ p.result \in {"returned-value", "returned-undefined",
                                             "raised-SyntaxError"} }) <= 1
        /\ id \in Acknowledged => id \notin QueuedIds
        /\ Cardinality({ ws \in HoldersOf(id) : task[ws[1]][ws[2]].pc \in Processing })
              + Cardinality({ d \in done : d.id = id }) <= 1

\* C11 witness: two workers have received the same message.  The receipt
\* handle of the first ran out before its deleteMessage, which failed, and
\* the other worker, which received the message after that, has
\* acknowledged it and processed it to the end.
C11_Witness ==
    \E p \in popLog, d \in done :
        /\ p.result = "raised-delete-error"
        /\ d.id = p.id /\ d.w # p.w /\ d.handle > p.handle
        /\ d.id \in Acknowledged
        /\ d.ended = "completed"

\* The invocations of doExecutionWork that hold the message received under
\* receipt handle h.
HoldersOfReceipt(h) ==
    { ws \in Workers \X Slots :
        task[ws[1]][ws[2]].pc # "idle" /\ task[ws[1]][ws[2]].handle = h }

SendsOf(h) ==
    { i \in DOMAIN notifier : notifier[i].op = "send" /\ notifier[i].handle = h }

ClosesOf(h) ==
    { i \in DOMAIN notifier : notifier[i].op = "close" /\ notifier[i].handle = h }

\* C12: result delivery protocol and guid correlation.  For a popped message
\* with a non-empty guid (one receipt of pop): nothing is sent before its
\* execution has finished; there is at most one send and at most one close
\* for it, the close after the send, by the worker that popped it; when its
\* iteration has completed there is exactly one of each; the guid given to
\* send is the guid of the message as it was pushed; and what pop returned
\* is held by at most one iteration ever, so the loop does not fetch or
\* execute it a second time.
C12_ResultDeliveryProtocol ==
    /\ \A h \in 1..(nextHandle - 1) :
          /\ Cardinality(SendsOf(h)) <= 1
          /\ Cardinality(ClosesOf(h)) <= Cardinality(SendsOf(h))
          /\ \A i \in SendsOf(h), j \in ClosesOf(h) :
                i < j /\ notifier[i].w = notifier[j].w
          /\ \A ws \in HoldersOfReceipt(h) :
                task[ws[1]][ws[2]].pc \in Downloading \cup {"execute"} => SendsOf(h) = {}
          /\ Cardinality({ ws \in HoldersOfReceipt(h) :
                              task[ws[1]][ws[2]].pc \in Processing })
                + Cardinality({ d \in done : d.handle = h }) <= 1
    /\ \A d \in done :
          d.ended = "completed" =>
              /\ Cardinality(SendsOf(d.handle)) = 1
              /\ Cardinality(ClosesOf(d.handle)) = 1
              /\ \A i \in SendsOf(d.handle) :
                    notifier[i].w = d.w /\ notifier[i].value = "result"
    /\ \A i \in DOMAIN notifier :
          notifier[i].op = "send" =>
              \A k \in Pushes :
                  sendLog[k].id = notifier[i].id =>
                      /\ sendLog[k].message.guid # ""
                      /\ sendLog[k].message.guid = notifier[i].guid

\* Two requests pushed with different guids have both been processed to the
\* end: each has its send and its close.
C12_Witness ==
    \E d1 \in done, d2 \in done :
        /\ d1.ended = "completed" /\ d2.ended = "completed"
        /\ d1.guid # d2.guid
        /\ SendsOf(d1.handle) # {} /\ ClosesOf(d2.handle) # {}
        /\ \E k \in Pushes : sendLog[k].id = d1.id

\* C13: a notifier failure does not touch the queue.  When send or close has
\* raised for a popped message, the deleteMessage of the pop that returned
\* it had returned before send was attempted, no message is in flight under
\* the receipt handle of that pop, no iteration holds what that pop returned
\* any more, and the failed call is not made again: after a failed send
\* there is no send and no close for it, after a failed close there is its
\* one send and no close.
C13_NotifierFailureLeavesQueue ==
    \A d \in done :
        d.ended \in {"send-raised", "close-raised"} =>
            /\ Returned(d.w, d.id, d.handle) # {}
            /\ \A i \in DOMAIN queue : queue[i].handle # d.handle
            /\ HoldersOfReceipt(d.handle) = {}
            /\ Cardinality({ e \in done : e.handle = d.handle }) = 1
            /\ ClosesOf(d.handle) = {}
            /\ Cardinality(SendsOf(d.handle)) = IF d.ended = "close-raised" THEN 1 ELSE 0

\* A send has raised for one message and a close for another, and for both
\* the deleteMessage of the pop that returned them had returned.
C13_Witness ==
    \E d1 \in done, d2 \in done :
        /\ d1.ended = "send-raised" /\ d2.ended = "close-raised"
        /\ d1.id # d2.id
        /\ Returned(d1.w, d1.id, d1.handle) # {}
        /\ Returned(d2.w, d2.id, d2.handle) # {}

\* C14: a cache miss and a corrupt package are distinguishable.  The error
\* loadPackageWithExecutable throws when the cache lookup misses differs in
\* its content (name, message, own properties) from the error it throws for
\* any package that is fetched but whose compilation-result.json fails to
\* parse.
C14_MissDistinguishableFromCorrupt ==
    (/\ le.op = "downloadExecutablePackage"
     /\ le.pc = "rejected"
     /\ le.steps = <<"temp.mkdir", "executableCache.get">>
     /\ ~le.pkg.hit) =>
        \A pkg \in Packages :
            (pkg.hit /\ pkg.metadata = "malformed") =>
                loadPackageWithExecutable_ends(pkg, le.dirPath).err # le.err

\* A call of execute or execBinary has reached its launch.
Launched(op) == le.op = op /\ le.launch.via # "none"

\* The positions <<i, j>> of the name/value pairs of the env tools of a
\* runtimeTools list.
EnvPairs(tools) ==
    UNION { { <<i, j>> : j \in DOMAIN tools[i].options } :
                i \in { n \in DOMAIN tools : tools[n].name = "env" } }

PairAt(tools, ij) == tools[ij[1]].options[ij[2]]

Later(ij, kl) == kl[1] > ij[1] \/ (kl[1] = ij[1] /\ kl[2] > ij[2])

ToolSupplies(tools, k) == \E ij \in EnvPairs(tools) : PairAt(tools, ij).name = k

\* C15: execution failures are data.  No call of execBinary ends with an
\* error at its caller: whether the try block throws or the launch (plain or
\* wrapped) fails, the call returns a result; for an error with code and
\* stderr the result carries that code, for an error without that shape it
\* has code -1.
C15_ExecutionFailuresAreData ==
    le.op = "execBinary" =>
        /\ le.pc # "rejected"
        /\ le.pc = "returned" => le.out.kind = "result"

\* C16: every run is resource-bounded.  Every launch, by execute and by
\* execBinary, has the configured timeout (binaryExecTimeoutMs) and the
\* configured maximum output size in its options.
C16_EveryRunResourceBounded ==
    le.launch.via # "none" =>
        /\ le.timeoutMs = BinaryExecTimeoutMs
        /\ le.maxExecOutputSize = MaxExecutableOutputSize
        /\ le.launch.options.timeoutMs = le.timeoutMs
        /\ le.launch.options.maxOutput = le.maxExecOutputSize

\* C17: env injection.  For every name/value pair in the options of the env
\* runtime tool of the params given to execute (PATH aside, which is
\* combined with the PATH of the package), the env that
\* getDefaultExecOptions returns maps the name to the value.
C17_EnvInjection ==
    Launched("execute") =>
        LET i == find(le.given.runtimeTools, "env")
        IN  i # 0 =>
                \A j \in DOMAIN le.given.runtimeTools[i].options :
                    LET opt == le.given.runtimeTools[i].options[j]
                    IN  opt.name # "PATH" =>
                            /\ opt.name \in DOMAIN le.launch.options.env
                            /\ le.launch.options.env[opt.name] = opt.value

\* The PATH the env runtime tool of the params supplies, "" for none.
CallerPath(params) ==
    LET i == find(params.runtimeTools, "env")
    IN  IF i # 0 /\ \E j \in DOMAIN params.runtimeTools[i].options :
                        params.runtimeTools[i].options[j].name = "PATH"
        THEN LET j == CHOOSE j \in DOMAIN params.runtimeTools[i].options :
                         params.runtimeTools[i].options[j].name = "PATH"
             IN  params.runtimeTools[i].options[j].value
        ELSE ""

\* C18: PATH is assembled additively.  In the env of a launch by execute:
\* with a PATH from the env runtime tool and a PATH from the package, PATH
\* is the first, the path delimiter, the second; with one of them only, PATH
\* is that one; the PATH of the caller is never dropped.
C18_PathAssembledAdditively ==
    Launched("execute") =>
        LET caller == CallerPath(le.given)
            bundle == le.buildResult.PATH
        IN  le.launch.options.env["PATH"] =
                IF caller # "" /\ bundle # "" THEN caller \o PathDelimiter \o bundle
                ELSE IF caller # "" THEN caller
                ELSE bundle

\* C19: the env of the caller wins over the sanitizer hints.  In the env of
\* a launch by execBinary: a name an env runtime tool supplies has the value
\* of the last such pair; a name executeParameters.env supplies, and no env
\* tool, has the value given there; each of ASAN_OPTIONS, UBSAN_OPTIONS,
\* MSAN_OPTIONS and LSAN_OPTIONS is 'color=always' exactly when the hints are
\* on and the caller supplies it in neither way; and the env holds no other
\* name.
C19_CallerEnvWinsOverHints ==
    Launched("execBinary") =>
        LET env == le.launch.options.env
            tools == le.given.runtimeTools
            given == le.given.env
        IN  /\ \A ij \in EnvPairs(tools) :
                  (\A kl \in EnvPairs(tools) :
                      Later(ij, kl) => PairAt(tools, kl).name # PairAt(tools, ij).name)
                  => /\ PairAt(tools, ij).name \in DOMAIN env
                     /\ env[PairAt(tools, ij).name] = PairAt(tools, ij).value
            /\ \A k \in DOMAIN given :
                  ~ToolSupplies(tools, k) => (k \in DOMAIN env /\ env[k] = given[k])
            /\ \A k \in {"ASAN_OPTIONS", "UBSAN_OPTIONS", "MSAN_OPTIONS", "LSAN_OPTIONS"} :
                  (k \in DOMAIN env /\ env[k] = "color=always")
                      <=> /\ le.useSanitizerEnvHints
                          /\ ~ToolSupplies(tools, k)
                          /\ k \notin DOMAIN given
            /\ \A k \in DOMAIN env :
                  \/ ToolSupplies(tools, k)
                  \/ k \in DOMAIN given
                  \/ k \in {"ASAN_OPTIONS", "UBSAN_OPTIONS", "MSAN_OPTIONS", "LSAN_OPTIONS"}

\* ASAN_OPTIONS comes from executeParameters.env and from an env runtime
\* tool; the launch has the value of the tool, and LSAN_OPTIONS, which the
\* caller does not supply, has the hint.
C19_Witness ==
    /\ Launched("execBinary")
    /\ "ASAN_OPTIONS" \in DOMAIN le.given.env
    /\ ToolSupplies(le.given.runtimeTools, "ASAN_OPTIONS")
    /\ le.launch.options.env["ASAN_OPTIONS"] = "detect_leaks=0"
    /\ le.launch.options.env["LSAN_OPTIONS"] = "color=always"

\* C20: the profiling wrapper degrades gracefully.  A launch by execBinary
\* goes through the wrapper exactly when runtimeTools holds a heaptrack
\* entry and the host supports the wrapper; with the entry on a host
\* without support the binary is launched plainly, with the executable, the
\* arguments and the options the wrapper would have been given, and a
\* launch that resolves gives a result.  In the result no line of stdout
\* has a source location tag, and a line of stderr has one only on the
\* wrapped path, where every line of the form 'at file:line' has one.
C20_WrapperDegradesGracefully ==
    Launched("execBinary") =>
        LET asked == find(le.given.runtimeTools, "heaptrack") # 0
        IN  /\ le.launch.via = "heaptrack" <=> (asked /\ le.supported)
            /\ (asked /\ ~le.supported) =>
                  /\ le.launch.via = "sandbox"
                  /\ le.launch.args = le.given.args
                  /\ le.launch.executable = "/app/a.out"
                  /\ le.launch.options.timeoutMs = le.timeoutMs
                  /\ le.launch.options.maxOutput = le.maxExecOutputSize
                  /\ le.launch.options =
                        execBinaryMaybeWrapped_launch(
                            "/app/a.out", le.given.args,
                            execBinary_execOptions(le, le.given, "/app"),
                            le.given, TRUE).options
            /\ le.pc = "returned" =>
                  /\ le.out.kind = "result"
                  /\ \A i \in DOMAIN le.out.stdout : le.out.stdout[i].sourceLocationTag = ""
                  /\ \A i \in DOMAIN le.out.stderr :
                        le.out.stderr[i].sourceLocationTag # ""
                            <=> (le.launch.via = "heaptrack"
                                 /\ IsAtFileLine(le.out.stderr[i].text))

\* A heaptrack entry on a host without support: the binary was launched
\* plainly and the call returned a result whose stderr holds an untagged
\* line of the form 'at file:line'.
C20_Witness ==
    /\ Launched("execBinary")
    /\ find(le.given.runtimeTools, "heaptrack") # 0
    /\ ~le.supported
    /\ le.launch.via = "sandbox"
    /\ le.pc = "returned"
    /\ \E i \in DOMAIN le.out.stderr :
          IsAtFileLine(le.out.stderr[i].text) /\ le.out.stderr[i].sourceLocationTag = ""

\* The iterations and the ended requests that were given the directory d.
UsersOf(d) ==
    Cardinality({ ws \in Workers \X Slots : task[ws[1]][ws[2]].dir = d })
        + Cardinality({ r \in done : r.dir = d })

\* C21: one working directory per request.  Every request for which
\* temp.mkdir has returned has a working directory created for it by its own
\* execution environment (a request whose temp.mkdir raised has ended
\* without one), and no directory is given to two requests, be they one
\* after the other in one worker or at the same time in two workers.
C21_OneWorkingDirectoryPerRequest ==
    /\ \A d \in tmp.dirs : UsersOf(d) <= 1
    /\ \A r \in done :
          IF r.ended = "download-mkdir-raised" THEN r.dir = 0 ELSE r.dir \in tmp.dirs
    /\ \A w \in Workers, s \in Slots :
          IF task[w][s].pc \in Processing \ {"download"}
          THEN task[w][s].dir \in tmp.dirs
          ELSE task[w][s].dir = 0

\* One worker has ended two requests one after the other, each in its own
\* directory.
C21_Witness ==
    /\ \E r1 \in done, r2 \in done : r1.w = r2.w /\ r1.id # r2.id /\ r1.dir # r2.dir
    /\ Cardinality(tmp.dirs) > 1

\* C22: the lifetime of the working directory is the lifetime of the
\* request.  Once a request has ended, in success or in failure, its working
\* directory is no longer in the temporary directory of the host.
C22_WorkingDirectoryRemoved ==
    \A r \in done : r.dir \notin tmp.dirs

\* The position in sendLog of the sendMessage call that queued message id.
PushIndex(id) == CHOOSE k \in DOMAIN sendLog : sendLog[k].id = id

\* C25: strict FIFO with a single worker.  While one worker at most has been
\* started: the messages are popped in the order in which they were sent to
\* the queue of its triple, none is popped before an earlier one of that
\* queue, and the results go to the notifier in that order.
C25_StrictFifoSingleWorker ==
    Cardinality({ w \in Workers : wstate[w] # "init" }) <= 1 =>
        /\ \A p \in popLog, q \in popLog :
              (p.id # 0 /\ q.id # 0 /\ p.handle < q.handle) =>
                  PushIndex(p.id) <= PushIndex(q.id)
        /\ \A p \in popLog :
              p.id # 0 =>
                  \A k \in DOMAIN sendLog :
                      (/\ k < PushIndex(p.id)
                       /\ sendLog[k].id # 0
                       /\ sendLog[k].call.QueueUrl = WorkerUrl) =>
                          \E q \in popLog : q.id = sendLog[k].id /\ q.handle < p.handle
        /\ \A i \in DOMAIN notifier, j \in DOMAIN notifier :
              (i < j /\ notifier[i].op = "send" /\ notifier[j].op = "send") =>
                  PushIndex(notifier[i].id) <= PushIndex(notifier[j].id)

\* One worker alone has popped and processed two messages: both results are
\* with the notifier.
C25_Witness ==
    /\ Cardinality({ w \in Workers : wstate[w] # "init" }) = 1
    /\ \E i \in DOMAIN notifier, j \in DOMAIN notifier :
          /\ i < j
          /\ notifier[i].op = "send" /\ notifier[j].op = "send"
          /\ notifier[i].id # notifier[j].id

\* The awaited sqs.deleteMessage of the pop in slot s returns in this step.
DeleteReturns(w, s) ==
    /\ task[w][s].pc = "pop_delete"
    /\ task'[w][s].pc # "pop_delete"
    /\ PopRecord(w, TaskEntry(task[w][s]), "raised-delete-error") \notin popLog'

\* What doExecutionWork does not process: undefined, null, a value that is
\* no object (it has no guid), and an object whose guid is empty or missing.
Unusable(msg) ==
    \/ msg.kind \in {"undefined", "null", "primitive", "array"}
    \/ msg.kind = "object" /\ msg.guid = ""

\* C27: messages without a usable guid are skipped.  In the step in which
\* pop returns nothing, or a message whose guid is empty or missing, the
\* iteration ends: no directory is made and nothing fetched, nothing runs,
\* nothing is sent to or closed at the notifier, and the next poll is
\* scheduled after the steady-state interval.  The first poll of a worker is
\* scheduled with the initial delay, which is longer than that interval.
C27_SkipWithoutGuid ==
    [][ /\ \A w \in Workers, s \in Slots :
              (\/ /\ ReceiveReturns(w, s)
                  /\ task'[w][s].pc # "pop_delete"
                  /\ Broker_receivable(WorkerUrl, MaxNumberOfMessages) = <<>>
               \/ /\ DeleteReturns(w, s)
                  /\ Unusable(task[w][s].msg)) =>
                  /\ task'[w][s] = IdleTask
                  /\ timers'[w] = Append(timers[w], PollIntervalMs)
                  /\ UNCHANGED <<notifier, done, tmp>>
        /\ \A w \in Workers :
              (wstate[w] = "init" /\ wstate'[w] = "running") =>
                  /\ timers'[w] = <<InitialDelayMs>>
                  /\ InitialDelayMs > PollIntervalMs
      ]_vars

\* A pop has returned a message whose guid is empty: nothing was fetched or
\* sent for it and the worker has its next poll scheduled.
C27_Witness ==
    \E p \in popLog :
        /\ p.id # 0 /\ p.result = "returned-value"
        /\ JSON_parse(p.body).kind = "object" /\ JSON_parse(p.body).guid = ""
        /\ \A r \in done : r.id # p.id
        /\ SendsOf(p.handle) = {}
        /\ \E i \in DOMAIN timers[p.w] : timers[p.w][i] = PollIntervalMs

\* The calls of a request that runs to its execution, in their order.
RequestPhases ==
    <<"temp.mkdir", "executableCache.get", "fs.writeFile", "packager.unpack",
      "fs.readFile", "JSON.parse", "exec.sandbox">>

\* C23: the phases of a request happen in order.  The calls made for a
\* request by downloadExecutablePackage and execute are a beginning of: cache
\* lookup, writing the bytes into the working directory, unpack, reading the
\* metadata file, parsing it, execution.  After a cache miss nothing is
\* written or unpacked, and the binary is launched only when the lookup hit,
\* the unpack and the parse succeeded and a build result is set.
C23_RequestPhasesInOrder ==
    le.op # "execBinary" =>
        /\ Len(le.steps) <= Len(RequestPhases)
        /\ le.steps = SubSeq(RequestPhases, 1, Len(le.steps))
        /\ (le.steps # <<>> /\ ~le.pkg.hit) =>
              \A i \in DOMAIN le.steps :
                  le.steps[i] \notin {"fs.writeFile", "packager.unpack", "fs.readFile"}
        /\ (\E i \in DOMAIN le.steps : le.steps[i] = "exec.sandbox") =>
              /\ le.pkg.hit /\ le.pkg.unpacks /\ le.pkg.metadata = "ok"
              /\ le.buildResult.loaded
              /\ le.launch.executable = le.buildResult.executableFilename

\* A request has gone through all its phases and its binary is launched.
C23_Witness ==
    /\ Launched("execute")
    /\ le.steps = RequestPhases

\* C24: the delivered value is a normalized result.  The value execute
\* returns, which doExecutionWork hands to the notifier as it is, is a
\* BasicExecutionResult: its stdout and stderr are sequences of line
\* records, whether the run completed, crashed or timed out.
C24_DeliveredValueNormalized ==
    (le.op = "execute" /\ le.pc = "returned") =>
        /\ le.out.kind = "result"
        /\ le.out.processExecutionResultTime = "measured"

\* A params object without its runtime tools of a type the execution
\* environment has no branch for.
RecognizedOnly(params) ==
    [params EXCEPT !.runtimeTools =
        SelectSeq(@, LAMBDA t : t.name \in {"env", "heaptrack"})]

\* C26: unrecognized runtime-tool tags are ignored.  The launch of a call
\* (wrapped or plain, executable, arguments, options with their env) is the
\* launch the same call makes for the params without the entries of an
\* unrecognized type, and such entries never keep a call from reaching its
\* launch.
C26_UnrecognizedToolsIgnored ==
    /\ Launched("execBinary") =>
          le.launch =
              execBinaryMaybeWrapped_launch(
                  "/app/a.out", RecognizedOnly(le.given).args,
                  execBinary_execOptions(le, RecognizedOnly(le.given), "/app"),
                  RecognizedOnly(le.given), le.supported)
    /\ Launched("execute") =>
          le.launch = execute_launch(le.buildResult, RecognizedOnly(le.given))
    /\ (le.op = "execBinary" /\ le.given.ldPathDefined) => le.launch.via # "none"
    /\ le.op = "execute" => le.launch.via # "none"

\* execBinary was called on a host with the wrapper, with an env tool and a
\* tool of an unrecognized type: the binary is launched plainly, with the
\* env of the env tool.
C26_Witness ==
    /\ Launched("execBinary")
    /\ le.supported
    /\ find(le.given.runtimeTools, "libsegfault") # 0
    /\ find(le.given.runtimeTools, "env") # 0
    /\ le.launch.via = "sandbox"
    /\ RecognizedOnly(le.given) # le.given

\* C28: assembling the execution options does not modify the request.  When
\* execute has made its launch, the params object it was given, with the
\* name and the value of every option of its env runtime tools, is as it
\* was received.
C28_ParamsNotModified ==
    Launched("execute") => le.params = le.given

(* ------------------------- StatsNoter: batching ------------------------ *)

\* The records of the batches handed to this._s3.put so far, in order.
RECURSIVE Flushed(_)
Flushed(puts) ==
    IF puts = <<>> THEN <<>>
    ELSE Flushed(SubSeq(puts, 1, Len(puts) - 1)) \o puts[Len(puts)].lines

\* C29: in a StatsNoter, after any noteCompilation calls and timer-driven
\* flushes, at most one flush timer is pending, a flush timer is pending
\* whenever the record queue is not empty, and right after a flush the queue
\* is empty and no timer is pending.
C29_StatsBatchingInvariant ==
    sn.pc = "ready" =>
        /\ Cardinality(sn.pending) <= 1
        /\ (sn.statsQueue # <<>> => sn.pending # {})
        /\ (sn.last = "flush" => sn.statsQueue = <<>> /\ sn.pending = {})

\* C29 witness: a flush has run, and afterwards two more records were noted
\* behind one pending timer.
C29_Witness ==
    /\ sn.puts # <<>>
    /\ Len(sn.statsQueue) = 2
    /\ Cardinality(sn.pending) = 1

\* C30: no stats record is lost or duplicated before the write: the batches
\* handed to put, in order, followed by the queue are exactly the records
\* noted, in the order noted; a failed put is only logged: its batch stays
\* out of the queue, and noting and flushing go on.
C30_NoStatsRecordLostOrDuplicated ==
    /\ Flushed(sn.puts) \o sn.statsQueue = sn.noted
    /\ \A i \in DOMAIN sn.puts :
          sn.puts[i].state = "rejected" => i \in sn.warned /\ sn.pc = "ready"
    /\ \A i \in sn.warned : sn.puts[i].state = "rejected"

\* C30 witness: a put of one batch was rejected, a later batch with a record
\* was handed to put as well, and another record waits in the queue.
C30_Witness ==
    /\ Len(sn.puts) = 2
    /\ sn.puts[1].state = "rejected"
    /\ sn.puts[1].lines # <<>>
    /\ sn.puts[2].lines # <<>>
    /\ sn.statsQueue # <<>>

(* ---------------------------- Diff pane: claims ------------------------ *)

\* The step is a call of the handler op of the Diff pane.
Handled(op) == dp'.calls = dp.calls + 1 /\ dp'.last.op = op

\* The side after the step holds the compiler and the result of the call,
\* shows the text of that result, and keeps its id and difftype.
Stored(side) ==
    dp'[side] = [dp[side] EXCEPT
                    !.compiler = dp'.last.compiler,
                    !.result = dp'.last.result,
                    !.text = join(refresh_output(dp'.last.result,
                                                 dp[side].difftype))]

\* The id a compiler or executor event is about: executor n is n + '_exec'.
Announced ==
    IF dp'.last.op \in {"onExecutor", "onExecutorClose"}
    THEN ExecId(dp'.last.id.num) ELSE dp'.last.id

\* C31: onCompileResult(id, ...) stores the result in exactly the sides whose
\* selected id equals id, both when both match, and leaves a side with a
\* different id unchanged; the result of executor n is routed under the key
\* n + '_exec', so it is stored in the sides that select that key and never
\* in a side that selects compiler n.
C31_DiffResultRouting ==
    [][ /\ Handled("onCompileResult") =>
              \A side \in Sides :
                 IF dp[side].id = dp'.last.id THEN Stored(side)
                 ELSE dp'[side] = dp[side]
        /\ Handled("onExecuteResult") =>
              \A side \in Sides :
                 /\ dp[side].id.type = "number" => dp'[side] = dp[side]
                 /\ IF /\ dp[side].id.type = "string"
                       /\ dp[side].id.str =
                             NumberToString(dp'.last.id.num)
                                \o <<"_", "e", "x", "e", "c">>
                    THEN Stored(side)
                    ELSE dp'[side] = dp[side] ]_vars

\* C31 witness: the left side selects compiler 1 and holds a compilation
\* result, the right side selects executor 1, and the result of executor 1
\* has been stored in the right side only.
C31_Witness ==
    /\ dp.last.op = "onExecuteResult"
    /\ dp.last.id = Num(1)
    /\ dp.lhs.id = Num(1)
    /\ dp.lhs.result \in CompileResults
    /\ dp.rhs.id.type = "string"
    /\ dp.rhs.result = dp.last.result
    /\ dp.rhs.text = "hello\nworld"

\* C32 as claimed: onCompiler gives the announced compiler to a side only
\* if the side has no id yet, so the first compiler announced fills both
\* empty sides, and never changes a side that has an id: its id, compiler,
\* result, difftype and text stay as they are; onCompilerClose(id) removes
\* the entry id alone from the known compilers and leaves the id and the
\* result of both sides as they are.
C32_SideWithIdNeverChanged ==
    [][ /\ (Handled("onCompiler") \/ Handled("onExecutor")) =>
              \A side \in Sides :
                 IF Truthy(dp[side].id) THEN dp'[side] = dp[side]
                 ELSE IF dp'.last.compiler = Null THEN dp'[side] = dp[side]
                 ELSE /\ dp'[side].id = Announced
                      /\ dp'[side].compiler.compiler = dp'.last.compiler
                      /\ dp'[side].compiler =
                            dp'.compilers[PropertyKey(dp'[side].id)]
        /\ (Handled("onCompilerClose") \/ Handled("onExecutorClose")) =>
              /\ DOMAIN dp'.compilers =
                    DOMAIN dp.compilers \ {PropertyKey(Announced)}
              /\ \A k \in DOMAIN dp'.compilers :
                    dp'.compilers[k] = dp.compilers[k]
              /\ \A side \in Sides :
                    /\ dp'[side].id = dp[side].id
                    /\ dp'[side].result = dp[side].result ]_vars

\* C32, amended: onCompiler gives the announced compiler and its id to a
\* side only if the side has no id yet, so the first compiler announced
\* fills both empty sides.  A side that has an id keeps its id, result,
\* difftype and text; its compiler is left as it is or, when the refreshed
\* picker calls onChange, becomes the known entry of the id the side
\* selects, which is the announced compiler when that id is announced
\* again.  onCompilerClose(id) removes the entry id alone from the known
\* compilers and leaves the id and the result of both sides as they are.
C32_DiffSelectionUnderOpenClose ==
    [][ /\ (Handled("onCompiler") \/ Handled("onExecutor")) =>
              \A side \in Sides :
                 IF Truthy(dp[side].id)
                 THEN /\ dp'[side] = [dp[side] EXCEPT
                                         !.compiler = dp'[side].compiler]
                      /\ \/ dp'[side].compiler = dp[side].compiler
                         \/ /\ PropertyKey(dp[side].id) \in DOMAIN dp'.compilers
                            /\ dp'[side].compiler =
                                  dp'.compilers[PropertyKey(dp[side].id)]
                 ELSE IF dp'.last.compiler = Null THEN dp'[side] = dp[side]
                 ELSE /\ dp'[side].id = Announced
                      /\ dp'[side].compiler.compiler = dp'.last.compiler
                      /\ dp'[side].compiler =
                            dp'.compilers[PropertyKey(dp'[side].id)]
        /\ (Handled("onCompilerClose") \/ Handled("onExecutorClose")) =>
              /\ DOMAIN dp'.compilers =
                    DOMAIN dp.compilers \ {PropertyKey(Announced)}
              /\ \A k \in DOMAIN dp'.compilers :
                    dp'.compilers[k] = dp.compilers[k]
              /\ \A side \in Sides :
                    /\ dp'[side].id = dp[side].id
                    /\ dp'[side].result = dp[side].result ]_vars

\* C32 witness: the pane started with compiler 1 on the left and nothing on
\* the right; compiler 2 was announced, went to the right side alone, and
\* then compiler 1 was announced: the left side still selects 1 and its
\* compiler is the one just announced.
C32_Witness ==
    /\ dp.calls = 2
    /\ dp.last.op = "onCompiler"
    /\ dp.last.id = Num(1)
    /\ DOMAIN dp.compilers = {PropertyKey(Num(1)), PropertyKey(Num(2))}
    /\ dp.lhs.id = Num(1)
    /\ dp.rhs.id = Num(2)
    /\ dp.rhs.compiler = dp.compilers[PropertyKey(Num(2))]
    /\ dp.lhs.compiler = dp.compilers[PropertyKey(Num(1))]
    /\ dp.lhs.compiler.compiler = dp.last.compiler

(* ------------------------- AssemblyCompiler: claims -------------------- *)

\* The build steps of the result with the name 'ld'.
LdSteps ==
    { i \in DOMAIN ac.fullResult.buildsteps :
         ac.fullResult.buildsteps[i].step = "ld" }

\* The linker processes started.
LdRuns == { i \in DOMAIN ac.execs : ac.execs[i].step = "ld" }

\* C33: linking is attempted only for a known architecture: the linker is
\* started only when the object file exists, is not the input file and its
\* detected architecture is x86 or x86_64; for any other architecture no
\* linker is started, exactly one 'ld' build step, with code -1 and
\* okToCache false, joins the build steps, and its error text is added to
\* the end of the stderr of the result.
C33_LinkOnlyKnownArchitecture ==
    /\ LdRuns # {} =>
          /\ ac.exists
          /\ ac.objectFilename # ac.inputFilename
          /\ ac.inputArch \in {"x86", "x86_64"}
    /\ (ac.pc = "returned" /\ ac.inputArch = "false") =>
          /\ LdRuns = {}
          /\ Cardinality(LdSteps) = 1
          /\ \A i \in LdSteps :
                /\ i = Len(ac.fullResult.buildsteps)
                /\ ac.fullResult.buildsteps[i].code = 0 - 1
                /\ ac.fullResult.buildsteps[i].okToCache = FALSE
                /\ ac.fullResult.stderr =
                      ac.compiled.stderr \o ac.fullResult.buildsteps[i].stderr
          /\ ac.fullResult.stderr[Len(ac.fullResult.stderr)] =
                "Invalid architecture for linking and execution"

\* C33 witness: the assembler left errors and an object file that readelf
\* reports as AArch64; the build returned without a linker run.
C33_Witness ==
    /\ ac.pc = "returned"
    /\ ac.inputArch = "false"
    /\ ac.exists
    /\ ac.compiled.stderr # <<>>
    /\ Len(ac.fullResult.buildsteps) = 2
    /\ Len(ac.execs) = 1

====
